---- MODULE Spec2Model ----
(***************************************************************************)
(* Streaming tool-call orchestration of the interview RAG chat endpoint.   *)
(* One POST is handled by `handler`, which reads the upstream model        *)
(* stream chunk by chunk, writes StreamEvents to the response, executes    *)
(* the search tool when a tool-use block stops and hands the follow-up     *)
(* stream to the recursive handleStreamWithToolCalls.  The call stack of   *)
(* the recursion is the variable `stack`; the upstream model and the       *)
(* search backend are the environment, drawn with \E.                      *)
(***************************************************************************)
EXTENDS Integers, Sequences, FiniteSets, TLC

\* ---------------------------------------------------------------- bounds
\* upstream chunks delivered during one turn, over all model responses,
\* not counting the message_start that opens each response
MaxChunks == 8
\* tokens in one input_json_delta fragment
MaxFrag == 2

\* ------------------------------------------------------- JSON (arguments)
\* A tool-argument text is a sequence of tokens.  "q" stands for the member
\* "query":"q" of an object, "0" is a digit.
Tokens == {"{", "}", "q", "0"}
Digits == {"0"}

Fragments == UNION {[1..n -> Tokens] : n \in 0..MaxFrag}

\* the argument texts the model streams for a tool call: two well-formed
\* objects, a well-formed number, and a malformed text; a stream that is
\* cut short delivers a proper prefix of one of them
ArgTexts == {<<"{", "}">>, <<"{", "q", "}">>, <<"0">>, <<"}">>}
IsPrefix(s, t) == Len(s) <= Len(t) /\ s = SubSeq(t, 1, Len(s))

DigitVal(t) == IF t = "1" THEN 1 ELSE 0

RECURSIVE NumVal(_)
NumVal(s) == IF s = <<>> THEN 0
             ELSE 10 * NumVal(SubSeq(s, 1, Len(s) - 1)) + DigitVal(s[Len(s)])

IsNumber(s) == /\ Len(s) >= 1
               /\ \A i \in 1..Len(s) : s[i] \in Digits
               /\ (Len(s) > 1 => s[1] # "0")

\* values: k is the kind, n the number, q the query member ("undefined"
\* when the object has none)
Val(k, n, q) == [k |-> k, n |-> n, q |-> q]
Absent == Val("absent", 0, "undefined")
Null == Val("null", 0, "undefined")
SyntaxError == Val("SyntaxError", 0, "undefined")

\* JSON.parse on the token texts; SyntaxError stands for the thrown error
JSONparse(s) ==
  IF s = <<"{", "}">> THEN Val("obj", 0, "undefined")
  ELSE IF s = <<"{", "q", "}">> THEN Val("obj", 0, "q")
  ELSE IF IsNumber(s) THEN Val("num", NumVal(s), "undefined")
  ELSE SyntaxError

tryParseJSON(s) == IF JSONparse(s) = SyntaxError THEN Null ELSE JSONparse(s)

\* JavaScript truthiness of a parsed value
Truthy(v) == \/ v.k = "obj"
             \/ (v.k = "num" /\ v.n # 0)

\* ------------------------------------------------- JSON (result payload)
\* A payload object maps every key to a string, "undefined" when the
\* property is missing; its JSON text is the sequence of the <<key, value>>
\* pairs of the defined properties.
Keys == <<"query", "searchType", "resultsCount", "results", "error", "details">>
KeySet == {Keys[i] : i \in 1..Len(Keys)}

Payload(query, searchType, resultsCount, results, error, details) ==
  [k \in KeySet |->
     CASE k = "query" -> query
       [] k = "searchType" -> searchType
       [] k = "resultsCount" -> resultsCount
       [] k = "results" -> results
       [] k = "error" -> error
       [] k = "details" -> details]

JSONstringify(o) ==
  LET F[i \in 0..Len(Keys)] ==
        IF i = 0 THEN <<>>
        ELSE IF o[Keys[i]] = "undefined" THEN F[i - 1]
        ELSE Append(F[i - 1], <<Keys[i], o[Keys[i]]>>)
  IN F[Len(Keys)]

JSONparseResult(s) ==
  [k \in KeySet |->
     IF \E i \in 1..Len(s) : s[i][1] = k
     THEN s[CHOOSE i \in 1..Len(s) : s[i][1] = k][2]
     ELSE "undefined"]

NoResult == Payload("undefined", "undefined", "undefined", "undefined",
                    "undefined", "undefined")

\* ------------------------------------------------------------ the search
\* outcomes of the search backend: it throws, or it finds one row
Outcomes == {"throw", "rows"}
CountStr(o) == IF o = "rows" THEN "1" ELSE "0"
RowsStr(o) == IF o = "rows" THEN "[r1]" ELSE "[]"

\* destructuring `query` out of the parsed input
QueryOf(params) == IF params.k = "obj" THEN params.q ELSE "undefined"

searchInterviews(params, outcome) ==
  IF outcome = "throw"
  THEN JSONstringify(Payload("undefined", "undefined", "undefined", "undefined",
                             "Failed to search interviews", "backend failure"))
  ELSE JSONstringify(Payload(QueryOf(params), "hybrid", CountStr(outcome),
                             RowsStr(outcome), "undefined", "undefined"))

\* ------------------------------------------------------ events, messages
SearchToolName == "search_interviews"
ToolNames == {SearchToolName, "other_tool"}
Texts == {"a", "b"}
\* the marker text written before every `start` event (the source wraps it
\* in backquotes and ends it with a newline)
ToolCallStartText == "TOOL CALL START"

\* a summary that reads a property the payload never has
SummaryNoError(parsedResult) ==
  [query |-> parsedResult["query"],
   searchType |-> parsedResult["searchType"],
   resultsCount |-> parsedResult["resultsCount"],
   hasError |-> FALSE]

\* the summary of a tool result: lines 425-430 and 230-235
Summary(parsedResult) ==
  [query |-> parsedResult["query"],
   searchType |-> parsedResult["searchType"],
   resultsCount |-> parsedResult["resultsCount"],
   hasError |-> parsedResult["error"] # "undefined"]
NoSummary == [query |-> "undefined", searchType |-> "undefined",
              resultsCount |-> "undefined", hasError |-> FALSE]

\* one StreamEvent as handed to writeStreamEvent; id 0 and name "" stand
\* for null / a missing property.  toolId is the property under which
\* the two-step handler names the tool call of an error event.
Event(type, status, id, name, input, result, summary, data, message) ==
  [type |-> type, status |-> status, id |-> id, name |-> name,
   input |-> input, result |-> result, summary |-> summary,
   data |-> data, message |-> message, toolId |-> 0]

TextEvent(t) ==
  Event("text", "", 0, "", Absent, NoResult, NoSummary, t, "")
ToolCallEvent(status, id, name, input) ==
  Event("tool_call", status, id, name, input, NoResult, NoSummary, "", "")
ToolResultEvent(id, name, parsedResult) ==
  Event("tool_result", "", id, name, Absent, parsedResult,
        Summary(parsedResult), "", "")
ErrorEvent(id, message) ==
  Event("error", "", id, "", Absent, NoResult, NoSummary, "", message)

\* the error event of the two-step handler for a failed tool call:
\* `data: { message, toolId: toolUseId }`
RagToolErrorEvent(toolUseId, message) ==
  [ErrorEvent(0, message) EXCEPT !.toolId = toolUseId]

SearchFailed(err) ==
  IF err = "SyntaxError" THEN "Search execution failed: SyntaxError"
  ELSE "Search execution failed: APIError"
RagFailed == "RAG processing failed: APIError"

\* messages of a model request
Message(role, type, id, name, input, content) ==
  [role |-> role, type |-> type, id |-> id, name |-> name,
   input |-> input, content |-> content]
UserText == Message("user", "text", 0, "", Absent, <<>>)
ToolUseMessage(id, name, input) ==
  Message("assistant", "tool_use", id, name, input, <<>>)
\* a tool_result block that lost its tool_use_id
ToolResultMessageNoId(id, toolResult) ==
  Message("user", "tool_result", 0, "", Absent, toolResult)

ToolResultMessage(id, toolResult) ==
  Message("user", "tool_result", id, "", Absent, toolResult)
ToolPair(id, name, input, toolResult) ==
  <<ToolUseMessage(id, name, input), ToolResultMessage(id, toolResult)>>

\* the request body of the POST: the conversation so far
Messages == <<UserText>>
SystemPrompts == {"", "custom"}
DefaultSystemPrompt == "default"
\* req.body as the framework hands it over: an object, or null (the JSON
\* text `null`)
Bodies == {"object", "null"}

\* `systemPrompt || defaultSystemPrompt`
OrDefault(systemPrompt) ==
  IF systemPrompt = "" THEN DefaultSystemPrompt ELSE systemPrompt

Request(system, messages, tools) ==
  [system |-> system, messages |-> messages, tools |-> tools]

\* ------------------------------------------------- the chat component
\* a ToolCall entry of currentToolCalls; status "" and the other fields
\* at their missing values stand for `undefined`
ToolCall(id, name, status, input, result, summary, error) ==
  [id |-> id, name |-> name, status |-> status, input |-> input,
   result |-> result, summary |-> summary, error |-> error]
NoToolCall == ToolCall(0, "", "", Absent, NoResult, NoSummary, "")

\* the ids a tool call can have on the client
ToolCallIds == {1, 2}

\* a message of the conversation; its content is the sequence of the
\* pieces that were concatenated into it
ChatMessage(role, content) == [role |-> role, content |-> content]
UserMessage == ChatMessage("user", <<"question">>)

\* the component before sendMessage: useState initial values, the number
\* of pending setTimeout callbacks per tool-call id, where sendMessage
\* stands ("idle": not called yet, "reading": in its read loop,
\* "returned"), and whether its catch has logged an error
ClientIdle ==
  [at |-> "idle",
   messages |-> <<>>,
   isLoading |-> FALSE,
   streamingMessage |-> <<>>,
   currentToolCalls |-> [i \in ToolCallIds |-> NoToolCall],
   completedToolCalls |-> <<>>,
   timers |-> [i \in ToolCallIds |-> 0],
   assistantMessage |-> <<>>,
   buffer |-> <<>>,
   errorLogged |-> FALSE]

\* the chat component over several turns, before the first input
SessionIdle ==
  [inputValue |-> <<>>,
   turns |-> 0,
   posted |-> <<>>,
   stale |-> [i \in ToolCallIds |-> 0],
   cleared |-> FALSE]

\* ------------------------------------------------------ hybrid search
\* before hybridSearch is called
HybridIdle ==
  [at |-> "idle", topK |-> 0, alpha |-> 0, vectorRows |-> <<>>,
   keywordRows |-> <<>>, results |-> <<>>]

\* ------------------------------------------------- the interviews cache
\* The file data/interviews.json has a modification time and a text; the
\* text of version v is the JSON array of the interviews of that version.
\* The module-level `cache` is null (NoCache) or holds the parsed
\* interviews and the mtime they were stored with.
Callers == {1, 2}
Versions == <<"v1", "v2", "v3", "v4">>
FileText(version) == <<"[", Versions[version], "]">>
File(mtimeMs, text) == [mtimeMs |-> mtimeMs, text |-> text]
NoInterviews == <<"null">>
Cache(interviews, mtime) == [interviews |-> interviews, mtime |-> mtime]
NoCache == Cache(NoInterviews, 0)

\* one call of loadInterviews: where it stands ("idle", "stat": awaiting
\* fs.stat, "check": fs.stat has answered, "read": awaiting fs.readFile,
\* "store": fs.readFile has answered, "returned"), its locals stat and
\* raw and what it returned; and what is recorded about it: the cache
\* matched the file when it was made, the file was modified since it was
\* made, no other call was in progress during it, it read the file
Call(at, stat, raw, returned, hit, changed, alone, didRead) ==
  [at |-> at, stat |-> stat, raw |-> raw, returned |-> returned,
   hit |-> hit, changed |-> changed, alone |-> alone, didRead |-> didRead]
NoCall == Call("idle", 0, <<>>, NoInterviews, FALSE, FALSE, TRUE, FALSE)

\* the file as deployed, an empty cache, no call yet
CacheIdle ==
  [file |-> File(1, FileText(1)),
   mem |-> NoCache,
   calls |-> [p \in Callers |-> NoCall],
   made |-> 0]

\* ------------------------------------------------ concurrent requests
\* Arrays are held by reference: `arrays` maps an array to its elements,
\* `allocated` counts the arrays created.  Request r arrives with the
\* array r as the `messages` of its body.  A message of a history is a
\* user text or one half of a tool pair.
Reqs == {1, 2}
HistoryMessage(role, text, id) == [role |-> role, text |-> text, id |-> id]
BodyMessages(r) ==
  <<HistoryMessage("user", IF r = 1 THEN "question 1" ELSE "question 2", 0)>>
\* tool calls of one request
MaxSteps == 2
MaxArrays == 2 + 2 * MaxSteps

\* one request before the handler runs: where it stands, its call stack
\* (lvl and the array the activation works on), the frames and model
\* requests it has written, and the steps it has taken
ConcRequest ==
  [pc |-> "start", stack |-> <<>>, out |-> <<>>, requests |-> <<>>,
   nextId |-> 1, script |-> <<>>]
ConcIdle ==
  [arrays |-> [a \in 1..MaxArrays |->
                 IF a \in Reqs THEN BodyMessages(a) ELSE <<>>],
   allocated |-> 2,
   reqs |-> [r \in Reqs |-> ConcRequest]]

\* ------------------------------------------------------------- the state
VARIABLES
  req,           \* the request: method, body ("null" when req.body is
                 \* null, else "object"), valid (body.messages is an
                 \* array), systemPrompt ("" when the body has none)
  pc,            \* position of handler: "start", "run", "done"
  status,        \* HTTP status written, 0 before any
  headersSent,   \* res.headersSent
  ended,         \* number of times the response was ended
  stack,         \* call stack: the loop of handler, then the nested
                 \* handleStreamWithToolCalls invocations, innermost last
  out,           \* StreamEvents written to the response, in order
  searches,      \* invocations of searchInterviews, in order
  requests,      \* anthropic.messages.create calls, in order
  nextId,        \* the next tool-use id the model will assign
  chunks,        \* upstream chunks delivered so far
  blocks,        \* the model's side: the tool-use blocks it has stopped,
                 \* each with its id, name and argument text
  deltas,        \* the model's side: the text deltas it has sent
  wire,          \* the client's side: the part of the response body the
                 \* reader has not delivered yet, as characters
  sent,          \* the frames of the response body, as they were written
  client,        \* the chat component: its React state and the locals of
                 \* sendMessage
  processed,     \* the StreamEvents the switch of sendMessage has handled
  connected,     \* the client still holds the connection of the request
  hybrid,        \* one call of InterviewSearchSystem.hybridSearch: its
                 \* arguments, the rows of the two sub-queries, its result
  cache,         \* the interviews file, the module-level cache of
                 \* loadInterviews and the calls in progress
  conc,          \* two chat requests handled concurrently: the arrays
                 \* they hold, by reference, and what each has written
  session        \* the chat component over several turns: the input
                 \* field, the turns started, the body of the last POST,
                 \* the pending timers set before the last sendMessage or
                 \* clearChat, whether clearChat ran since the last turn

vars == <<req, pc, status, headersSent, ended, stack, out, searches,
          requests, nextId, chunks, blocks, deltas,
          wire, sent, client, processed, connected, hybrid, cache,
          conc, session>>

\* what the chat handlers and the chat component leave alone
otherVars == <<connected, hybrid, cache, conc, session>>

\* one activation of a stream loop: the local variables of handler
\* (lvl "top") or of handleStreamWithToolCalls (lvl "nested"), and the
\* state of the stream it reads (started: message_start was delivered,
\* open: the content block in progress, block: id, name and arguments sent
\* so far of the tool-use block in progress)
NoBlock == [id |-> 0, name |-> "", args |-> <<>>]
Frame(lvl, currentMessages) ==
  [lvl |-> lvl, toolUseId |-> 0, toolName |-> "", toolInput |-> <<>>,
   currentMessages |-> currentMessages, started |-> FALSE, open |-> "none",
   block |-> NoBlock]

Cur == stack[Len(stack)]
SetCur(f) == [stack EXCEPT ![Len(stack)] = f]

Init ==
  /\ req \in [method : {"POST", "GET"}, body : Bodies, valid : BOOLEAN,
              systemPrompt : SystemPrompts]
  /\ req.body = "null" => ~req.valid /\ req.systemPrompt = ""
  /\ pc = "start"
  /\ status = 0
  /\ headersSent = FALSE
  /\ ended = 0
  /\ stack = <<>>
  /\ out = <<>>
  /\ searches = <<>>
  /\ requests = <<>>
  /\ nextId = 1
  /\ chunks = 0
  /\ blocks = <<>>
  /\ deltas = <<>>
  /\ wire = <<>>
  /\ sent = <<>>
  /\ client = ClientIdle
  /\ processed = <<>>
  /\ connected = TRUE
  /\ hybrid = HybridIdle
  /\ cache = CacheIdle
  /\ conc = ConcIdle
  /\ session = SessionIdle

\* ------------------------------------------------------ request handling
\* handler, lines 300-302
Reject405 ==
  /\ pc = "start"
  /\ req.method # "POST"
  /\ status' = 405
  /\ ended' = ended + 1
  /\ pc' = "done"
  /\ UNCHANGED <<otherVars, wire, sent, client, processed, req, headersSent, stack, out, searches, requests,
                 nextId, chunks,
                 blocks, deltas>>

\* a body check that does not wait for the method check
Reject400First ==
  /\ pc = "start"
  /\ req.body = "object"
  /\ ~req.valid
  /\ status' = 400
  /\ ended' = ended + 1
  /\ pc' = "done"
  /\ UNCHANGED <<otherVars, wire, sent, client, processed, req, headersSent, stack, out, searches, requests,
                 nextId, chunks,
                 blocks, deltas>>

\* handler, lines 305-309
Reject400 ==
  /\ pc = "start"
  /\ req.method = "POST"
  /\ req.body = "object"
  /\ ~req.valid
  /\ status' = 400
  /\ ended' = ended + 1
  /\ pc' = "done"
  /\ UNCHANGED <<otherVars, wire, sent, client, processed, req, headersSent, stack, out, searches, requests,
                 nextId, chunks,
                 blocks, deltas>>

\* handler, lines 305 and 500-504: destructuring a null body throws inside
\* the try, before the headers are written
FailBeforeHeaders ==
  /\ pc = "start"
  /\ req.method = "POST"
  /\ req.body = "null"
  /\ ~headersSent
  /\ status' = 500
  /\ ended' = ended + 1
  /\ pc' = "done"
  /\ UNCHANGED <<otherVars, wire, sent, client, processed, req, headersSent, stack, out, searches, requests,
                 nextId, chunks,
                 blocks, deltas>>

\* handler, lines 312-345: headers, then the first model request succeeds
StartStream ==
  /\ pc = "start"
  /\ req.method = "POST"
  /\ req.valid
  /\ status' = 200
  /\ headersSent' = TRUE
  /\ requests' = Append(requests,
                        Request(OrDefault(req.systemPrompt), Messages, TRUE))
  /\ stack' = <<Frame("top", Messages)>>
  /\ pc' = "run"
  /\ UNCHANGED <<otherVars, wire, sent, client, processed, req, ended, out, searches, nextId, chunks,
                 blocks, deltas>>

\* a failure path that falls through to the "Send end event" of the
\* graceful path
FailTurnThenEndFrame ==
  /\ out' = out \o <<ErrorEvent(0, RagFailed), TextEvent("")>>
  /\ ended' = ended + 1
  /\ stack' = <<>>
  /\ pc' = "done"

\* the failure path of handler, lines 500-515, once the headers are sent
FailTurn ==
  /\ out' = Append(out, ErrorEvent(0, RagFailed))
  /\ ended' = ended + 1
  /\ stack' = <<>>
  /\ pc' = "done"

\* a failed first model request answered with a 500 although the headers
\* are out
StartFailAs500 ==
  /\ pc = "start"
  /\ req.method = "POST"
  /\ req.valid
  /\ status' = 500
  /\ headersSent' = TRUE
  /\ requests' = Append(requests,
                        Request(OrDefault(req.systemPrompt), Messages, TRUE))
  /\ ended' = ended + 1
  /\ stack' = <<>>
  /\ pc' = "done"
  /\ UNCHANGED <<otherVars, wire, sent, client, processed, req, out, searches, nextId, chunks,
                 blocks, deltas>>

\* handler, lines 312-341 and 500-515: the first model request throws
StartFail ==
  /\ pc = "start"
  /\ req.method = "POST"
  /\ req.valid
  /\ status' = 200
  /\ headersSent' = TRUE
  /\ requests' = Append(requests,
                        Request(OrDefault(req.systemPrompt), Messages, TRUE))
  /\ FailTurn
  /\ UNCHANGED <<otherVars, wire, sent, client, processed, req, searches, nextId, chunks,
                 blocks, deltas>>

\* ------------------------------------------------------- the stream loops
Reading == pc = "run" /\ stack # <<>>
MoreChunks == Reading /\ Cur.started /\ chunks < MaxChunks

\* message_start, the first chunk of every stream: `continue` in handler
\* (lines 348-350), no branch in handleStreamWithToolCalls.  The chunk types
\* neither loop has a branch for (ping, message_delta, and message_stop in
\* handleStreamWithToolCalls) change nothing either and are left out.
MessageStart ==
  /\ Reading
  /\ ~Cur.started
  /\ stack' = SetCur([Cur EXCEPT !.started = TRUE])
  /\ UNCHANGED <<otherVars, wire, sent, client, processed, req, pc, status, headersSent, ended, out, searches,
                 requests, nextId, chunks, blocks, deltas>>

\* content_block_start of a tool_use block: lines 351-370 and 164-183
BlockStartTool ==
  /\ MoreChunks
  /\ Cur.open = "none"
  /\ \E name \in ToolNames :
       /\ stack' = SetCur([Cur EXCEPT !.toolUseId = nextId,
                                      !.toolName = name,
                                      !.toolInput = <<>>,
                                      !.open = "tool",
                                      !.block = [id |-> nextId,
                                                 name |-> name,
                                                 args |-> <<>>]])
       /\ out' = out \o <<TextEvent(ToolCallStartText),
                          ToolCallEvent("start", nextId, name, Absent)>>
  /\ nextId' = nextId + 1
  /\ chunks' = chunks + 1
  /\ UNCHANGED <<otherVars, wire, sent, client, processed, req, pc, status, headersSent, ended, searches,
                 requests,
                 blocks, deltas>>

\* content_block_start of a text block: no branch changes anything
BlockStartText ==
  /\ MoreChunks
  /\ Cur.open = "none"
  /\ stack' = SetCur([Cur EXCEPT !.open = "text"])
  /\ chunks' = chunks + 1
  /\ UNCHANGED <<otherVars, wire, sent, client, processed, req, pc, status, headersSent, ended, out, searches,
                 requests, nextId,
                 blocks, deltas>>

\* content_block_delta with a text_delta: lines 372-377 and 185-189
TextDelta ==
  /\ MoreChunks
  /\ Cur.open = "text"
  /\ \E t \in Texts :
       /\ out' = Append(out, TextEvent(t))
       /\ deltas' = Append(deltas, t)
  /\ chunks' = chunks + 1
  /\ UNCHANGED <<otherVars, wire, sent, client, processed, req, pc, status, headersSent, ended, stack,
                 searches, requests, nextId,
                 blocks>>

\* the events written after the buffer grew to toolInput: lines 383-394
InputUpdate(f, toolInput) ==
  IF Truthy(tryParseJSON(toolInput))
  THEN <<ToolCallEvent("input_update", f.toolUseId, f.toolName,
                       tryParseJSON(toolInput))>>
  ELSE <<>>

\* content_block_delta with an input_json_delta: lines 378-396 and 190-205
JsonDelta ==
  /\ MoreChunks
  /\ Cur.open = "tool"
  /\ \E partial_json \in Fragments :
       LET toolInput == Cur.toolInput \o partial_json IN
       /\ \E t \in ArgTexts : IsPrefix(Cur.block.args \o partial_json, t)
       /\ stack' = SetCur([Cur EXCEPT !.toolInput = toolInput,
                                      !.block.args = @ \o partial_json])
       /\ out' = out \o InputUpdate(Cur, toolInput)
  /\ chunks' = chunks + 1
  /\ UNCHANGED <<otherVars, wire, sent, client, processed, req, pc, status, headersSent, ended, searches,
                 requests, nextId,
                 blocks, deltas>>

\* a loop that runs the tool in the first model response only
ShouldExecuteTopOnly(f) ==
  f.lvl = "top" /\ f.toolUseId # 0 /\ f.toolName = SearchToolName

\* the guard of the content_block_stop branch: lines 398 and 207
ShouldExecute(f) == f.toolUseId # 0 /\ f.toolName = SearchToolName

\* "Reset tool state"
ResetTool(f) == [f EXCEPT !.toolUseId = 0, !.toolName = "", !.toolInput = <<>>]

\* the frame once a catch block of the content_block_stop branch has run:
\* handler falls through to the reset of lines 482-485,
\* handleStreamWithToolCalls (lines 282-293) goes on with its locals as
\* they are
AfterCatch(f) == IF f.lvl = "top" THEN ResetTool(f) ELSE f

\* a catch block that rethrows: the loop that was reading is abandoned
Abandon(stk, f) == SubSeq(stk, 1, Len(stk) - 1)

\* the call stack once the catch block has run in activation f, the
\* innermost of stk: the error is swallowed and the loop of f goes on
Resume(stk, f) == [stk EXCEPT ![Len(stk)] = AfterCatch(f)]

\* the event written by those catch blocks: lines 473-479 and 286-292
CatchEvent(f, err) == ErrorEvent(f.toolUseId, SearchFailed(err))

\* the stream once the open content block has stopped
Closed(f) == [f EXCEPT !.open = "none", !.block = NoBlock]
Stopped(f) == IF f.open = "tool" THEN Append(blocks, f.block) ELSE blocks

\* content_block_stop when no registered tool call is pending
BlockStopIdle ==
  /\ MoreChunks
  /\ Cur.open # "none"
  /\ blocks' = Stopped(Cur)
  /\ ~ShouldExecute(Cur)
  /\ stack' = SetCur(Closed(Cur))
  /\ chunks' = chunks + 1
  /\ UNCHANGED <<otherVars, wire, sent, client, processed, req, pc, status, headersSent, ended, out, searches,
                 requests, nextId,
                 deltas>>

\* content_block_stop, JSON.parse(toolInput) throws: lines 401, 469-485
\* and 209, 282-293
BlockStopParseError ==
  /\ MoreChunks
  /\ Cur.open # "none"
  /\ blocks' = Stopped(Cur)
  /\ ShouldExecute(Cur)
  /\ JSONparse(Cur.toolInput) = SyntaxError
  /\ out' = Append(out, CatchEvent(Cur, "SyntaxError"))
  /\ stack' = Resume(stack, Closed(Cur))
  /\ chunks' = chunks + 1
  /\ UNCHANGED <<otherVars, wire, sent, client, processed, req, pc, status, headersSent, ended, searches,
                 requests, nextId,
                 deltas>>

\* the history handleStreamWithToolCalls starts from: lines 130-157
InitialMessages(baseMessages, initialToolUseId, initialToolName, initialToolInput, initialToolResult) ==
  IF /\ initialToolUseId # 0
     /\ initialToolName # ""
     /\ Truthy(initialToolInput)
     /\ initialToolResult # <<>>
  THEN baseMessages \o ToolPair(initialToolUseId, initialToolName,
                                initialToolInput, initialToolResult)
  ELSE baseMessages

\* currentMessages after the two pushes of lines 240-261; handler keeps no
\* working history
Pushed(f, parsedInput, toolResult) ==
  IF f.lvl = "top" THEN f
  ELSE [f EXCEPT !.currentMessages =
          @ \o ToolPair(f.toolUseId, f.toolName, parsedInput, toolResult)]

\* the follow-up model request: lines 435-465 and 264-271
FollowUpRequest(f, parsedInput, toolResult) ==
  IF f.lvl = "top"
  THEN Request(OrDefault(req.systemPrompt),
               Messages \o ToolPair(f.toolUseId, f.toolName, parsedInput,
                                    toolResult),
               TRUE)
  ELSE Request(req.systemPrompt,
               Pushed(f, parsedInput, toolResult).currentMessages,
               TRUE)

\* the activation that handles the follow-up stream: lines 468 and 274
FollowUpFrame(f, parsedInput, toolResult) ==
  IF f.lvl = "top"
  THEN Frame("nested", InitialMessages(Messages, f.toolUseId, f.toolName,
                                       parsedInput, toolResult))
  ELSE Frame("nested",
             InitialMessages(Pushed(f, parsedInput, toolResult).currentMessages,
                             0, "", Absent, <<>>))

\* the events written while the tool runs: lines 404-432 and 211-237
ExecuteEvents(f, parsedInput, toolResult) ==
  <<ToolCallEvent("executing", f.toolUseId, f.toolName, parsedInput),
    ToolResultEvent(f.toolUseId, f.toolName, JSONparseResult(toolResult))>>

Search(f, parsedInput, outcome) ==
  [id |-> f.toolUseId, params |-> parsedInput, outcome |-> outcome]

\* content_block_stop of a registered tool call with parseable arguments,
\* the follow-up request succeeds: lines 398-468 and 207-274
BlockStopExecute ==
  /\ MoreChunks
  /\ Cur.open # "none"
  /\ blocks' = Stopped(Cur)
  /\ ShouldExecute(Cur)
  /\ JSONparse(Cur.toolInput) # SyntaxError
  /\ \E outcome \in Outcomes :
       LET f == Closed(Cur)
           parsedInput == JSONparse(f.toolInput)
           toolResult == searchInterviews(parsedInput, outcome)
       IN /\ out' = out \o ExecuteEvents(f, parsedInput, toolResult)
          /\ searches' = Append(searches, Search(f, parsedInput, outcome))
          /\ requests' = Append(requests,
                                FollowUpRequest(f, parsedInput, toolResult))
          /\ stack' = Append(SetCur(Pushed(f, parsedInput, toolResult)),
                             FollowUpFrame(f, parsedInput, toolResult))
  /\ chunks' = chunks + 1
  /\ UNCHANGED <<otherVars, wire, sent, client, processed, req, pc, status, headersSent, ended, nextId,
                 deltas>>

\* the same, but anthropic.messages.create throws for the follow-up
\* request: the catch of lines 469-480 and 282-293
BlockStopFollowUpFail ==
  /\ MoreChunks
  /\ Cur.open # "none"
  /\ blocks' = Stopped(Cur)
  /\ ShouldExecute(Cur)
  /\ JSONparse(Cur.toolInput) # SyntaxError
  /\ \E outcome \in Outcomes :
       LET f == Closed(Cur)
           parsedInput == JSONparse(f.toolInput)
           toolResult == searchInterviews(parsedInput, outcome)
       IN /\ out' = out \o ExecuteEvents(f, parsedInput, toolResult)
                       \o <<CatchEvent(f, "APIError")>>
          /\ searches' = Append(searches, Search(f, parsedInput, outcome))
          /\ requests' = Append(requests,
                                FollowUpRequest(f, parsedInput, toolResult))
          /\ stack' = Resume(stack, Pushed(f, parsedInput, toolResult))
  /\ chunks' = chunks + 1
  /\ UNCHANGED <<otherVars, wire, sent, client, processed, req, pc, status, headersSent, ended, nextId,
                 deltas>>

\* "Send end event", res.end(): lines 493-499
\* a graceful path that ends the response before its last frame and
\* once more after it
FinishTurnEndsTwice ==
  /\ out' = Append(out, TextEvent(""))
  /\ ended' = ended + 2
  /\ stack' = <<>>
  /\ pc' = "done"

FinishTurn ==
  /\ out' = Append(out, TextEvent(""))
  /\ ended' = ended + 1
  /\ stack' = <<>>
  /\ pc' = "done"

\* message_stop read by handler: `break`, lines 487-499
MessageStop ==
  /\ MoreChunks
  /\ Len(stack) = 1
  /\ Cur.open = "none"
  /\ FinishTurn
  /\ chunks' = chunks + 1
  /\ UNCHANGED <<otherVars, wire, sent, client, processed, req, status, headersSent, searches, requests,
                 nextId,
                 blocks, deltas>>

\* the stream read by handler is exhausted: lines 347, 493-499
TopStreamEnd ==
  /\ Reading
  /\ Len(stack) = 1
  /\ FinishTurn
  /\ UNCHANGED <<otherVars, wire, sent, client, processed, req, status, headersSent, searches, requests,
                 nextId, chunks,
                 blocks, deltas>>

\* a follow-up stream is exhausted: the innermost handleStreamWithToolCalls
\* returns, every enclosing one resets its tool state and returns (lines
\* 274-281), and handler goes on after line 468 with the reset of 482-485
NestedStreamEnd ==
  /\ Reading
  /\ Len(stack) > 1
  /\ stack' = <<ResetTool(stack[1])>>
  /\ UNCHANGED <<otherVars, wire, sent, client, processed, req, pc, status, headersSent, ended, out, searches,
                 requests, nextId, chunks,
                 blocks, deltas>>

\* reading the stream of handler throws: lines 500-515
TopStreamFail ==
  /\ Reading
  /\ Len(stack) = 1
  /\ FailTurn
  /\ UNCHANGED <<otherVars, wire, sent, client, processed, req, status, headersSent, searches, requests,
                 nextId, chunks,
                 blocks, deltas>>

\* reading a follow-up stream throws: the error leaves the innermost
\* handleStreamWithToolCalls and is caught by the caller, whose `await` of
\* line 468 or 274 is inside the try of its content_block_stop branch
NestedStreamFail ==
  /\ Reading
  /\ Len(stack) > 1
  /\ LET caller == stack[Len(stack) - 1] IN
       /\ out' = Append(out, CatchEvent(caller, "APIError"))
       /\ stack' = Resume(SubSeq(stack, 1, Len(stack) - 1), caller)
  /\ UNCHANGED <<otherVars, wire, sent, client, processed, req, pc, status, headersSent, ended, searches,
                 requests, nextId, chunks,
                 blocks, deltas>>

Next ==
  \/ Reject405
  \/ Reject400
  \/ FailBeforeHeaders
  \/ StartStream
  \/ StartFail
  \/ MessageStart
  \/ BlockStartTool
  \/ BlockStartText
  \/ TextDelta
  \/ JsonDelta
  \/ BlockStopIdle
  \/ BlockStopParseError
  \/ BlockStopExecute
  \/ BlockStopFollowUpFail
  \/ MessageStop
  \/ TopStreamEnd
  \/ NestedStreamEnd
  \/ TopStreamFail
  \/ NestedStreamFail

Spec == Init /\ [][Next]_vars

\* one turn: a POST whose body has a messages array, from the first model
\* request to the end of the response
TurnInit ==
  /\ Init
  /\ req = [method |-> "POST", body |-> "object", valid |-> TRUE,
            systemPrompt |-> ""]

TurnNext ==
  \/ StartStream
  \/ StartFail
  \/ MessageStart
  \/ BlockStartTool
  \/ BlockStartText
  \/ TextDelta
  \/ JsonDelta
  \/ BlockStopIdle
  \/ BlockStopParseError
  \/ BlockStopExecute
  \/ BlockStopFollowUpFail
  \/ MessageStop
  \/ TopStreamEnd
  \/ NestedStreamEnd
  \/ TopStreamFail
  \/ NestedStreamFail

\* every await of the turn eventually settles: the model requests answer
\* or throw, and every upstream stream is finite
TurnSpec == TurnInit /\ [][TurnNext]_vars /\ WF_vars(TurnNext)

\* ------------------------------------------------- the response body
\* The body is a sequence of characters.  The six characters of the
\* prefix `data: ` are two of them, so that a read can end inside the
\* prefix; the JSON text of an event is three (brace, members, brace), so
\* that a read can end inside the payload.  JSON.stringify escapes every
\* line feed inside a string, so the only "\n" characters of a body are
\* the two that end a frame.
LF == "\n"
DataPrefix == <<"da", "ta: ">>
OtherPrefix == <<"ev", "ent:">>
DoneMarker == <<"[DONE]">>

\* frames of a response whose content is left open
MaxEvents == 2

\* the StreamEvents of a response, and the members of the JSON text of each
EventTable ==
  <<TextEvent("a"),
    TextEvent(""),
    ToolCallEvent("start", 1, SearchToolName, Absent),
    ToolCallEvent("input_update", 1, SearchToolName,
                  Val("obj", 0, "undefined")),
    ToolCallEvent("executing", 1, SearchToolName, Val("obj", 0, "q")),
    ToolResultEvent(1, SearchToolName,
                    JSONparseResult(searchInterviews(Val("obj", 0, "q"),
                                                     "rows"))),
    ErrorEvent(1, SearchFailed("APIError")),
    ErrorEvent(0, RagFailed),
    ToolCallEvent("start", 2, SearchToolName, Absent),
    RagToolErrorEvent(1, SearchFailed("APIError"))>>
EventTexts ==
  <<"text a", "text", "tool_call start 1", "tool_call input_update 1",
    "tool_call executing 1", "tool_result 1", "error 1", "error",
    "tool_call start 2", "error toolId 1">>
StreamEvents == {EventTable[i] : i \in 1..Len(EventTable)}

JSONstringifyEvent(event) ==
  <<"{", EventTexts[CHOOSE i \in 1..Len(EventTable) : EventTable[i] = event],
    "}">>

\* JSON.parse of a payload; NotAnEvent stands for the thrown SyntaxError
NotAnEvent ==
  Event("SyntaxError", "", 0, "", Absent, NoResult, NoSummary, "", "")
JSONparseEvent(eventData) ==
  IF /\ Len(eventData) = 3
     /\ eventData[1] = "{"
     /\ eventData[3] = "}"
     /\ \E i \in 1..Len(EventTexts) : EventTexts[i] = eventData[2]
  THEN EventTable[CHOOSE i \in 1..Len(EventTexts) :
                    EventTexts[i] = eventData[2]]
  ELSE NotAnEvent

\* res.write(`data: ${JSON.stringify(event)}\n\n`)
writeStreamEvent(event) == DataPrefix \o JSONstringifyEvent(event) \o <<LF, LF>>

\* what a body is made of: a frame written by writeStreamEvent, a data
\* line whose payload is JSON cut short, a line with another field name
Written(event) == [kind |-> "event", event |-> event]
Malformed == [kind |-> "malformed", event |-> NotAnEvent]
Unprefixed == [kind |-> "unprefixed", event |-> TextEvent("a")]
Items == {Written(e) : e \in StreamEvents} \cup {Malformed, Unprefixed}

FrameOf(item) ==
  CASE item.kind = "event" -> writeStreamEvent(item.event)
    [] item.kind = "malformed" ->
         DataPrefix \o <<"{", "text a">> \o <<LF, LF>>
    [] item.kind = "unprefixed" ->
         OtherPrefix \o JSONstringifyEvent(item.event) \o <<LF, LF>>

\* longer responses: a turn as the server writes it (one tool call, then
\* text, then the end frame), one that names a tool call again after
\* its result, one with text before and after a tool call, and the turn
\* of the streaming handler whose follow-up request fails after the tool
\* result was written
Scenarios ==
  {<<Written(EventTable[3]), Written(EventTable[4]), Written(EventTable[5]),
     Written(EventTable[6]), Written(EventTable[1]), Written(EventTable[2])>>,
   <<Written(EventTable[4]), Written(EventTable[6]), Written(EventTable[3]),
     Written(EventTable[9])>>,
   <<Written(EventTable[1]), Written(EventTable[1]), Written(EventTable[3]),
     Written(EventTable[5]), Written(EventTable[6]), Written(EventTable[1]),
     Written(EventTable[2])>>,
   <<Written(EventTable[3]), Written(EventTable[5]), Written(EventTable[6]),
     Written(EventTable[7]), Written(EventTable[2])>>}

ResponseBodies ==
  UNION {[1..n -> Items] : n \in 0..MaxEvents} \cup Scenarios

RECURSIVE BytesOf(_)
BytesOf(items) ==
  IF items = <<>> THEN <<>>
  ELSE FrameOf(Head(items)) \o BytesOf(Tail(items))

\* ------------------------------------------------- the read loop
\* buffer.split('\n'): the pieces between line feeds, the last one being
\* what follows the last line feed
RECURSIVE SplitFrom(_, _, _)
SplitFrom(s, piece, pieces) ==
  IF s = <<>> THEN Append(pieces, piece)
  ELSE IF Head(s) = LF THEN SplitFrom(Tail(s), <<>>, Append(pieces, piece))
  ELSE SplitFrom(Tail(s), Append(piece, Head(s)), pieces)
split(s) == SplitFrom(s, <<>>, <<>>)

\* a read loop that forgets the incomplete trailing line
CarryNothing(lines) == <<>>

\* `buffer = lines.pop() || ''`
Carry(lines) == lines[Len(lines)]
Popped(lines) == SubSeq(lines, 1, Len(lines) - 1)

\* a prefix test that lets every line through
startsWithAnything(line) == TRUE

\* line.startsWith('data: ')
startsWithData(line) == Len(line) >= 2 /\ SubSeq(line, 1, 2) = DataPrefix
\* line.slice(6)
slice6(line) == SubSeq(line, 3, Len(line))

\* an assignment in place of the append
ConcatOverwrite(content, text) == IF text = "" THEN <<>> ELSE <<text>>

\* `assistantMessage += text`
Concat(content, text) == IF text = "" THEN content ELSE Append(content, text)

ErrorNote(message) ==
  IF message = RagFailed THEN "[Error: RAG processing failed: APIError]"
  ELSE "[Error: Search execution failed: APIError]"

\* an input merge that takes whatever the event has
MergeInputOverwrite(input, previous) == input

\* `toolCallData.input || prev[toolCallData.id]?.input`
MergeInput(input, previous) == IF Truthy(input) THEN input ELSE previous

\* the switch over event.type, with the state updates it queues applied
Reduce(c, event) ==
  LET prev == c.currentToolCalls[event.id] IN
  CASE event.type = "text" ->
         [c EXCEPT !.assistantMessage = Concat(@, event.data),
                   !.streamingMessage = Concat(c.assistantMessage, event.data)]
    [] event.type = "tool_call" ->
         [c EXCEPT !.currentToolCalls[event.id] =
            ToolCall(event.id, event.name, event.status,
                     MergeInput(event.input, prev.input),
                     prev.result, prev.summary, prev.error)]
    [] event.type = "tool_result" ->
         [c EXCEPT !.currentToolCalls[event.id] =
                      [prev EXCEPT !.status = "completed",
                                   !.result = event.result,
                                   !.summary = event.summary],
                   !.timers[event.id] = @ + 1]
    [] event.type = "error" /\ event.id # 0 ->
         [c EXCEPT !.currentToolCalls[event.id] =
                      [prev EXCEPT !.status = "error",
                                   !.error = event.message]]
    [] event.type = "error" /\ event.id = 0 ->
         [c EXCEPT !.assistantMessage = Append(@, ErrorNote(event.message)),
                   !.streamingMessage =
                      Append(c.assistantMessage, ErrorNote(event.message))]
    [] OTHER -> c

\* the body of `for (const line of lines)`: st is the component with the
\* events handled so far
ProcessLine(st, line) ==
  IF ~startsWithData(line) THEN st
  ELSE IF slice6(line) = DoneMarker THEN st
  ELSE IF JSONparseEvent(slice6(line)) = NotAnEvent THEN st
  ELSE [c |-> Reduce(st.c, JSONparseEvent(slice6(line))),
        log |-> Append(st.log, JSONparseEvent(slice6(line)))]

RECURSIVE ProcessLines(_, _)
ProcessLines(st, lines) ==
  IF lines = <<>> THEN st
  ELSE ProcessLines(ProcessLine(st, Head(lines)), Tail(lines))

\* the variables of the server, which the component does not touch
serverVars == <<req, pc, status, headersSent, ended, stack, out, searches,
                requests, nextId, chunks, blocks, deltas>>

ErrorMessage == ChatMessage("assistant", <<"Sorry, I encountered an error">>)

\* the state updates sendMessage starts with
Sending(c) ==
  [c EXCEPT !.messages = Append(@, UserMessage),
            !.isLoading = TRUE,
            !.streamingMessage = <<>>,
            !.currentToolCalls = [i \in ToolCallIds |-> NoToolCall],
            !.completedToolCalls = <<>>]

\* sendMessage up to the reader: fetch answers 200 with a body
ClientSend ==
  /\ client.at = "idle"
  /\ ~client.isLoading
  /\ \E body \in ResponseBodies :
       /\ sent' = body
       /\ wire' = BytesOf(body)
  /\ client' = [Sending(client) EXCEPT !.at = "reading",
                                        !.assistantMessage = <<>>,
                                        !.buffer = <<>>]
  /\ UNCHANGED <<otherVars, processed, serverVars>>

\* a catch that also commits the text received so far
CaughtCommitsPartial(c) ==
  [c EXCEPT !.at = "returned",
            !.errorLogged = TRUE,
            !.messages =
               Append(IF c.assistantMessage # <<>>
                      THEN Append(@, ChatMessage("assistant",
                                                 c.assistantMessage))
                      ELSE @,
                      ErrorMessage),
            !.isLoading = FALSE]

\* the catch and finally of sendMessage
Caught(c) ==
  [c EXCEPT !.at = "returned",
            !.errorLogged = TRUE,
            !.messages = Append(@, ErrorMessage),
            !.isLoading = FALSE]

\* fetch rejects, or the response is not ok or has no body
ClientSendFail ==
  /\ client.at = "idle"
  /\ ~client.isLoading
  /\ client' = Caught(Sending(client))
  /\ UNCHANGED <<otherVars, wire, sent, processed, serverVars>>

\* one pass of the read loop: reader.read() delivers the next characters
\* of the body, however many, and every complete line is handled
ClientRead ==
  /\ client.at = "reading"
  /\ wire # <<>>
  /\ \E n \in 1..Len(wire) :
       LET value == SubSeq(wire, 1, n)
           lines == split(client.buffer \o value)
           st == ProcessLines([c |-> client, log |-> processed],
                              Popped(lines))
       IN /\ client' = [st.c EXCEPT !.buffer = Carry(lines)]
          /\ processed' = st.log
          /\ wire' = SubSeq(wire, n + 1, Len(wire))
  /\ UNCHANGED <<otherVars, sent, serverVars>>

\* an end of stream that commits the text without testing it
ClientReadDoneAlwaysCommits ==
  /\ client.at = "reading"
  /\ wire = <<>>
  /\ client' = [client EXCEPT
                  !.at = "returned",
                  !.messages =
                     Append(@, ChatMessage("assistant",
                                           client.assistantMessage)),
                  !.streamingMessage = <<>>,
                  !.isLoading = FALSE]
  /\ UNCHANGED <<otherVars, wire, sent, processed, serverVars>>

\* reader.read() answers done: the loop is left, a non-empty
\* assistantMessage is committed
ClientReadDone ==
  /\ client.at = "reading"
  /\ wire = <<>>
  /\ client' = [client EXCEPT
                  !.at = "returned",
                  !.messages =
                     IF client.assistantMessage # <<>>
                     THEN Append(@, ChatMessage("assistant",
                                                client.assistantMessage))
                     ELSE @,
                  !.streamingMessage =
                     IF client.assistantMessage # <<>> THEN <<>> ELSE @,
                  !.isLoading = FALSE]
  /\ UNCHANGED <<otherVars, wire, sent, processed, serverVars>>

\* reader.read() rejects: the connection broke
ClientReadFail ==
  /\ client.at = "reading"
  /\ client' = Caught(client)
  /\ UNCHANGED <<otherVars, wire, sent, processed, serverVars>>

\* the setTimeout callback of the tool_result case for one id: the entry
\* moves from the active map to the completed list
Fire(c, id) ==
  LET completed == c.currentToolCalls[id] IN
  [c EXCEPT !.timers[id] = @ - 1,
            !.currentToolCalls[id] = NoToolCall,
            !.completedToolCalls =
               IF /\ completed # NoToolCall
                  /\ ~\E k \in 1..Len(@) : @[k].id = completed.id
               THEN Append(@, completed)
               ELSE @]

\* a pending setTimeout callback runs
ClientTimer ==
  /\ \E id \in ToolCallIds :
       /\ client.timers[id] > 0
       /\ client' = Fire(client, id)
  /\ UNCHANGED <<otherVars, wire, sent, processed, serverVars>>

ClientNext ==
  \/ ClientSend
  \/ ClientSendFail
  \/ ClientRead
  \/ ClientReadDone
  \/ ClientReadFail
  \/ ClientTimer

\* the chat component: one sendMessage against a response of any content
ClientSpec == TurnInit /\ [][ClientNext]_vars

\* ------------------------------------------- the plain-text chat handler
\* The earlier variant of the endpoint: it writes raw text instead of
\* StreamEvents, and reads the follow-up stream in a loop of its own that
\* forwards text deltas only.  The call stack holds the loop of handler
\* (lvl "plain") and, while a follow-up stream is read, that inner loop
\* (lvl "followup").
RawWrite(t) == Event("raw", "", 0, "", Absent, NoResult, NoSummary, t, "")
PlainToolError(err) ==
  IF err = "SyntaxError" THEN "[Error executing search: SyntaxError]"
  ELSE "[Error executing search: APIError]"
PlainError == "[Error: APIError]"

PlainReading(lvl) == Reading /\ Cur.lvl = lvl

\* lines 150-176: headers, then the first model request succeeds
PlainStart ==
  /\ pc = "start"
  /\ req.method = "POST"
  /\ req.valid
  /\ status' = 200
  /\ headersSent' = TRUE
  /\ requests' = Append(requests,
                        Request(OrDefault(req.systemPrompt), Messages, TRUE))
  /\ stack' = <<Frame("plain", Messages)>>
  /\ pc' = "run"
  /\ UNCHANGED <<otherVars, wire, sent, client, processed, req, ended, out, searches, nextId, chunks,
                 blocks, deltas>>

\* the failure path, lines 261-269, once the headers are sent
PlainFailTurn ==
  /\ out' = Append(out, RawWrite(PlainError))
  /\ ended' = ended + 1
  /\ stack' = <<>>
  /\ pc' = "done"

\* lines 169-176 and 261-269: the first model request throws
PlainStartFail ==
  /\ pc = "start"
  /\ req.method = "POST"
  /\ req.valid
  /\ status' = 200
  /\ headersSent' = TRUE
  /\ requests' = Append(requests,
                        Request(OrDefault(req.systemPrompt), Messages, TRUE))
  /\ PlainFailTurn
  /\ UNCHANGED <<otherVars, wire, sent, client, processed, req, searches, nextId, chunks,
                 blocks, deltas>>

\* message_start: `continue`, lines 182-184
PlainMessageStart ==
  /\ PlainReading("plain")
  /\ ~Cur.started
  /\ stack' = SetCur([Cur EXCEPT !.started = TRUE])
  /\ UNCHANGED <<otherVars, wire, sent, client, processed, req, pc, status, headersSent, ended, out, searches,
                 requests, nextId, chunks, blocks, deltas>>

\* content_block_start of a tool_use block, lines 185-189: id and name are
\* taken over, toolInput is left as it is
PlainBlockStartTool ==
  /\ PlainReading("plain")
  /\ MoreChunks
  /\ Cur.open = "none"
  /\ \E name \in ToolNames :
       stack' = SetCur([Cur EXCEPT !.toolUseId = nextId,
                                   !.toolName = name,
                                   !.open = "tool",
                                   !.block = [id |-> nextId,
                                              name |-> name,
                                              args |-> <<>>]])
  /\ nextId' = nextId + 1
  /\ chunks' = chunks + 1
  /\ UNCHANGED <<otherVars, wire, sent, client, processed, req, pc, status, headersSent, ended, out, searches,
                 requests,
                 blocks, deltas>>

\* content_block_start of a text block
PlainBlockStartText ==
  /\ PlainReading("plain")
  /\ MoreChunks
  /\ Cur.open = "none"
  /\ stack' = SetCur([Cur EXCEPT !.open = "text"])
  /\ chunks' = chunks + 1
  /\ UNCHANGED <<otherVars, wire, sent, client, processed, req, pc, status, headersSent, ended, out, searches,
                 requests, nextId,
                 blocks, deltas>>

\* text_delta, lines 191-193
PlainTextDelta ==
  /\ PlainReading("plain")
  /\ MoreChunks
  /\ Cur.open = "text"
  /\ \E t \in Texts :
       /\ out' = Append(out, RawWrite(t))
       /\ deltas' = Append(deltas, t)
  /\ chunks' = chunks + 1
  /\ UNCHANGED <<otherVars, wire, sent, client, processed, req, pc, status, headersSent, ended, stack,
                 searches, requests, nextId,
                 blocks>>

\* input_json_delta, lines 194-197
PlainJsonDelta ==
  /\ PlainReading("plain")
  /\ MoreChunks
  /\ Cur.open = "tool"
  /\ \E partial_json \in Fragments :
       /\ \E t \in ArgTexts : IsPrefix(Cur.block.args \o partial_json, t)
       /\ stack' = SetCur([Cur EXCEPT !.toolInput = @ \o partial_json,
                                      !.block.args = @ \o partial_json])
  /\ chunks' = chunks + 1
  /\ UNCHANGED <<otherVars, wire, sent, client, processed, req, pc, status, headersSent, ended, out, searches,
                 requests, nextId,
                 blocks, deltas>>

\* content_block_stop when the guard of line 199 fails: nothing is reset
PlainBlockStopIdle ==
  /\ PlainReading("plain")
  /\ MoreChunks
  /\ Cur.open # "none"
  /\ blocks' = Stopped(Cur)
  /\ ~ShouldExecute(Cur)
  /\ stack' = SetCur(Closed(Cur))
  /\ chunks' = chunks + 1
  /\ UNCHANGED <<otherVars, wire, sent, client, processed, req, pc, status, headersSent, ended, out, searches,
                 requests, nextId,
                 deltas>>

\* content_block_stop, JSON.parse(toolInput) throws: lines 202, 243-253
PlainBlockStopParseError ==
  /\ PlainReading("plain")
  /\ MoreChunks
  /\ Cur.open # "none"
  /\ blocks' = Stopped(Cur)
  /\ ShouldExecute(Cur)
  /\ JSONparse(Cur.toolInput) = SyntaxError
  /\ out' = Append(out, RawWrite(PlainToolError("SyntaxError")))
  /\ stack' = SetCur(ResetTool(Closed(Cur)))
  /\ chunks' = chunks + 1
  /\ UNCHANGED <<otherVars, wire, sent, client, processed, req, pc, status, headersSent, ended, searches,
                 requests, nextId,
                 deltas>>

\* the follow-up request, lines 206-236: no tools are offered
PlainFollowUpRequest(f, parsedInput, toolResult) ==
  Request(OrDefault(req.systemPrompt),
          Messages \o ToolPair(f.toolUseId, f.toolName, parsedInput,
                               toolResult),
          FALSE)

\* content_block_stop of a registered tool call whose buffer parses, the
\* follow-up request succeeds: lines 199-238
PlainBlockStopExecute ==
  /\ PlainReading("plain")
  /\ MoreChunks
  /\ Cur.open # "none"
  /\ blocks' = Stopped(Cur)
  /\ ShouldExecute(Cur)
  /\ JSONparse(Cur.toolInput) # SyntaxError
  /\ \E outcome \in Outcomes :
       LET f == Closed(Cur)
           parsedInput == JSONparse(f.toolInput)
           toolResult == searchInterviews(parsedInput, outcome)
       IN /\ searches' = Append(searches, Search(f, parsedInput, outcome))
          /\ requests' = Append(requests,
                                PlainFollowUpRequest(f, parsedInput,
                                                     toolResult))
          /\ stack' = Append(SetCur(f), Frame("followup", Messages))
  /\ chunks' = chunks + 1
  /\ UNCHANGED <<otherVars, wire, sent, client, processed, req, pc, status, headersSent, ended, out, nextId,
                 deltas>>

\* the same, but the follow-up request throws: lines 243-253
PlainBlockStopFollowUpFail ==
  /\ PlainReading("plain")
  /\ MoreChunks
  /\ Cur.open # "none"
  /\ blocks' = Stopped(Cur)
  /\ ShouldExecute(Cur)
  /\ JSONparse(Cur.toolInput) # SyntaxError
  /\ \E outcome \in Outcomes :
       LET f == Closed(Cur)
           parsedInput == JSONparse(f.toolInput)
           toolResult == searchInterviews(parsedInput, outcome)
       IN /\ searches' = Append(searches, Search(f, parsedInput, outcome))
          /\ requests' = Append(requests,
                                PlainFollowUpRequest(f, parsedInput,
                                                     toolResult))
          /\ stack' = SetCur(ResetTool(f))
  /\ out' = Append(out, RawWrite(PlainToolError("APIError")))
  /\ chunks' = chunks + 1
  /\ UNCHANGED <<otherVars, wire, sent, client, processed, req, pc, status, headersSent, ended, nextId,
                 deltas>>

\* a text delta of the follow-up stream, lines 239-242; its other chunks
\* are skipped
PlainFollowUpDelta ==
  /\ PlainReading("followup")
  /\ chunks < MaxChunks
  /\ \E t \in Texts :
       /\ out' = Append(out, RawWrite(t))
       /\ deltas' = Append(deltas, t)
  /\ chunks' = chunks + 1
  /\ UNCHANGED <<otherVars, wire, sent, client, processed, req, pc, status, headersSent, ended, stack,
                 searches, requests, nextId,
                 blocks>>

\* the follow-up stream is exhausted: "Reset tool state", lines 249-253
PlainFollowUpEnd ==
  /\ PlainReading("followup")
  /\ stack' = <<ResetTool(stack[1])>>
  /\ UNCHANGED <<otherVars, wire, sent, client, processed, req, pc, status, headersSent, ended, out, searches,
                 requests, nextId, chunks,
                 blocks, deltas>>

\* reading the follow-up stream throws: the catch of lines 243-247, then
\* the reset
PlainFollowUpFail ==
  /\ PlainReading("followup")
  /\ out' = Append(out, RawWrite(PlainToolError("APIError")))
  /\ stack' = <<ResetTool(stack[1])>>
  /\ UNCHANGED <<otherVars, wire, sent, client, processed, req, pc, status, headersSent, ended, searches,
                 requests, nextId, chunks,
                 blocks, deltas>>

\* res.end(), line 260
PlainFinishTurn ==
  /\ ended' = ended + 1
  /\ stack' = <<>>
  /\ pc' = "done"

\* message_stop: `break`, lines 254-260
PlainMessageStop ==
  /\ PlainReading("plain")
  /\ MoreChunks
  /\ Cur.open = "none"
  /\ PlainFinishTurn
  /\ chunks' = chunks + 1
  /\ UNCHANGED <<otherVars, wire, sent, client, processed, req, status, headersSent, out, searches, requests,
                 nextId,
                 blocks, deltas>>

\* the stream read by handler is exhausted
PlainStreamEnd ==
  /\ PlainReading("plain")
  /\ PlainFinishTurn
  /\ UNCHANGED <<otherVars, wire, sent, client, processed, req, status, headersSent, out, searches, requests,
                 nextId, chunks,
                 blocks, deltas>>

\* reading the stream of handler throws: lines 261-269
PlainStreamFail ==
  /\ PlainReading("plain")
  /\ PlainFailTurn
  /\ UNCHANGED <<otherVars, wire, sent, client, processed, req, status, headersSent, searches, requests,
                 nextId, chunks,
                 blocks, deltas>>

PlainNext ==
  \/ PlainStart
  \/ PlainStartFail
  \/ PlainMessageStart
  \/ PlainBlockStartTool
  \/ PlainBlockStartText
  \/ PlainTextDelta
  \/ PlainJsonDelta
  \/ PlainBlockStopIdle
  \/ PlainBlockStopParseError
  \/ PlainBlockStopExecute
  \/ PlainBlockStopFollowUpFail
  \/ PlainFollowUpDelta
  \/ PlainFollowUpEnd
  \/ PlainFollowUpFail
  \/ PlainMessageStop
  \/ PlainStreamEnd
  \/ PlainStreamFail

\* one turn of the plain-text handler
PlainSpec == TurnInit /\ [][PlainNext]_vars

TypeOK ==
  /\ pc \in {"start", "run", "done"}
  /\ ended \in 0..2
  /\ chunks \in 0..MaxChunks

\* ------------------------------------------------------------ properties
Last(s) == s[Len(s)]
Indices(s) == 1..Len(s)

IsStart(e) == e.type = "tool_call" /\ e.status = "start"
IsInputUpdate(e) == e.type = "tool_call" /\ e.status = "input_update"
IsExecuting(e) == e.type = "tool_call" /\ e.status = "executing"
IsToolResult(e) == e.type = "tool_result"
IsKeyedError(e) == e.type = "error" /\ e.id # 0
IsTerminal(e) == IsToolResult(e) \/ IsKeyedError(e)

\* the ids the server has announced with a `start` event
Started == {out[i].id : i \in {j \in Indices(out) : IsStart(out[j])}}
TerminalsOf(id) == {i \in Indices(out) : IsTerminal(out[i]) /\ out[i].id = id}
SearchesOf(id) == {k \in Indices(searches) : searches[k].id = id}
ToolResults == SelectSeq(out, IsToolResult)

Registered(b) == b.name = SearchToolName
Parseable(b) == JSONparse(b.args) # SyntaxError

StoppedIds == {blocks[i].id : i \in Indices(blocks)}

\* C1: every announced tool-call id gets exactly one terminal event
\* (tool_result or keyed error): never a second one, no event that
\* references the id after its terminal event, and the terminal event is
\* there once the model has stopped the tool-use block of that id.
C1_OneTerminalPerId ==
  \A id \in Started :
    /\ Cardinality(TerminalsOf(id)) <= 1
    /\ \A i \in TerminalsOf(id) : \A j \in Indices(out) :
         j > i => out[j].id # id
    /\ id \in StoppedIds => Cardinality(TerminalsOf(id)) = 1

\* C2: searchInterviews is invoked exactly once for every tool-call id whose
\* block stopped with the registered name and parseable arguments, and
\* never for any other id.
C2_SearchExactlyOnce ==
  \A id \in 1..(nextId - 1) :
    Cardinality(SearchesOf(id)) =
      IF \E i \in Indices(blocks) :
           blocks[i].id = id /\ Registered(blocks[i]) /\ Parseable(blocks[i])
      THEN 1 ELSE 0

\* the two synthetic messages of the k-th executed tool call
PairOf(k) ==
  ToolPair(searches[k].id, SearchToolName, searches[k].params,
           searchInterviews(searches[k].params, searches[k].outcome))

RECURSIVE PairsUpTo(_)
PairsUpTo(k) == IF k = 0 THEN <<>> ELSE PairsUpTo(k - 1) \o PairOf(k)

\* C4: the k-th follow-up request carries the original messages followed
\* by the tool_use / tool_result pairs of the first k executed tool calls,
\* in order: two more messages per completed call, none dropped,
\* duplicated or reordered.
C4_HistoryGrowsByPairs ==
  \A k \in Indices(searches) :
    k + 1 <= Len(requests) =>
      requests[k + 1].messages = Messages \o PairsUpTo(k)

\* rank of an event in the lifecycle of its tool call
Rank(e) == IF IsStart(e) THEN 1
           ELSE IF IsInputUpdate(e) THEN 2
           ELSE IF IsExecuting(e) THEN 3
           ELSE 4

\* C5: the events of one tool-call id come in the order start,
\* input_update*, at most one executing, terminal; no input_update or
\* executing for the id precedes its start or follows a terminal event.
C5_LifecycleOrder ==
  \A i \in Indices(out) :
    out[i].id # 0 =>
      /\ (~IsStart(out[i]) =>
            \E h \in 1..(i - 1) : IsStart(out[h]) /\ out[h].id = out[i].id)
      /\ \A j \in (i + 1)..Len(out) :
           out[j].id = out[i].id =>
             /\ Rank(out[i]) <= Rank(out[j])
             /\ Rank(out[i]) = Rank(out[j]) => Rank(out[i]) \in {2, 4}

\* C6: a tool-use block with an unregistered tool name gets an error event
\* that references its id, and no search is invoked for it.
C6_UnknownToolError ==
  \A i \in Indices(blocks) :
    ~Registered(blocks[i]) =>
      /\ \E j \in Indices(out) : IsKeyedError(out[j]) /\ out[j].id = blocks[i].id
      /\ SearchesOf(blocks[i].id) = {}

\* a request that hands a tool result for id to the model
CarriesResult(r, id) ==
  \E m \in Indices(r.messages) :
    r.messages[m].type = "tool_result" /\ r.messages[m].id = id

\* C9: a tool-use block whose argument buffer is not valid JSON at block
\* stop gets an error event keyed to its id, and no executing event, no
\* search, no tool_result and no tool result sent to the model.
C9_ParseErrorIsError ==
  \A i \in Indices(blocks) :
    ~Parseable(blocks[i]) =>
      LET id == blocks[i].id IN
      /\ \E j \in Indices(out) : IsKeyedError(out[j]) /\ out[j].id = id
      /\ \A j \in Indices(out) :
           out[j].id = id => ~IsExecuting(out[j]) /\ ~IsToolResult(out[j])
      /\ SearchesOf(id) = {}
      /\ \A k \in Indices(requests) : ~CarriesResult(requests[k], id)

\* a follow-up request or a follow-up stream has thrown
FollowUpThrew ==
  \E i \in Indices(out) : out[i].message = SearchFailed("APIError")

\* C3: the tool loop has no cap.  Every tool call that completes is
\* followed by one more model request that offers the search tool, at
\* every depth: n executed tool calls make n + 1 requests, every
\* registered, parseable tool-use block the model stops is executed, in
\* whichever response it comes, and when no follow-up throws each such
\* block is executed once.
C3_LoopCounts ==
  /\ ~FollowUpThrew =>
       \A id \in 1..(nextId - 1) : Cardinality(SearchesOf(id)) <= 1
  /\ pc # "start" /\ status = 200 => Len(requests) = Len(searches) + 1
  /\ Len(ToolResults) = Len(searches)
  /\ \A k \in Indices(requests) : requests[k].tools
  /\ \A i \in Indices(blocks) :
       Registered(blocks[i]) /\ Parseable(blocks[i])
         => SearchesOf(blocks[i].id) # {}

ErrorPayload ==
  Payload("undefined", "undefined", "undefined", "undefined",
          "Failed to search interviews", "backend failure")

\* C7: a search whose backend throws yields the payload {error, details}
\* as an ordinary tool result: the event right after `executing` is the
\* tool_result of that id with summary.hasError true, the follow-up
\* request is made and hands the same payload to the model; and hasError
\* is true exactly when the payload has an error field.
C7_SearchFailureIsResult ==
  /\ Len(ToolResults) = Len(searches)
  /\ Len(requests) >= Len(searches)
  /\ \A i \in Indices(out) :
       IsExecuting(out[i]) =>
         /\ i < Len(out)
         /\ IsToolResult(out[i + 1])
         /\ out[i + 1].id = out[i].id
  /\ \A k \in Indices(searches) :
       LET e == ToolResults[k]
           msgs == requests[k + 1].messages
       IN /\ e.id = searches[k].id
          /\ e.summary.hasError <=> e.result["error"] # "undefined"
          /\ searches[k].outcome = "throw" =>
               /\ e.summary.hasError
               /\ e.result = ErrorPayload
               /\ Len(requests) >= k + 1
               /\ Last(msgs).type = "tool_result"
               /\ Last(msgs).content = JSONstringify(ErrorPayload)

\* a search failed, its result went out flagged and the follow-up stream is
\* being read
C7_Witness ==
  /\ Len(searches) = 1
  /\ searches[1].outcome = "throw"
  /\ Len(stack) = 2
  /\ Len(requests) = 2
  /\ Last(out).type = "tool_result"
  /\ Last(out).summary.hasError

\* C8: for every executed tool call the result in the tool_result event is
\* the parse of the very string handed to the model as tool_result content
\* of the follow-up request, and event, tool_use block and tool_result block
\* carry the same id.
C8_SameJSONBothWays ==
  \A k \in Indices(searches) :
    k + 1 <= Len(requests) =>
      LET e == ToolResults[k]
          msgs == requests[k + 1].messages
      IN /\ Len(msgs) >= 2
         /\ Last(msgs).type = "tool_result"
         /\ e.result = JSONparseResult(Last(msgs).content)
         /\ Last(msgs).id = e.id
         /\ msgs[Len(msgs) - 1].type = "tool_use"
         /\ msgs[Len(msgs) - 1].id = e.id

\* two tool calls executed, one with rows and one failed, both handed on
C8_Witness ==
  /\ Len(searches) = 2
  /\ Len(requests) = 3
  /\ searches[1].outcome # searches[2].outcome
  /\ ToolResults[1].result # ToolResults[2].result

IsDeltaText(e) == e.type = "text" /\ e.data \in Texts
DeltaTextsOut ==
  LET evs == SelectSeq(out, IsDeltaText)
  IN [i \in Indices(evs) |-> evs[i].data]

\* C10: an error event for a tool call does not abort the turn: right
\* after it is written a stream loop is still reading and the response is
\* open, every text delta of the model is still forwarded, and a response
\* that has ended was ended once, by the empty text frame or by the
\* failure path of handler, never by the tool error.
C10_ToolErrorsDoNotAbort ==
  /\ (out # <<>> /\ IsKeyedError(Last(out))) =>
       pc = "run" /\ stack # <<>> /\ ended = 0
  /\ DeltaTextsOut = deltas
  /\ (pc = "done" /\ status = 200) =>
       /\ ended = 1
       /\ Last(out) \in {TextEvent(""), ErrorEvent(0, RagFailed)}

\* a turn with a tool error, then a forwarded text delta, ended gracefully
C10_Witness ==
  /\ pc = "done"
  /\ out # <<>>
  /\ Last(out) = TextEvent("")
  /\ \E i \in Indices(out) : \E j \in Indices(out) :
       i < j /\ IsKeyedError(out[i]) /\ IsDeltaText(out[j])

IsNonEmptyText(e) == e.type = "text" /\ e.data # ""
TextsOut ==
  LET evs == SelectSeq(out, IsNonEmptyText)
  IN [i \in Indices(evs) |-> evs[i].data]

\* C11: over a turn the non-empty payloads of the `text` events written
\* are exactly the text deltas received from the model, in arrival order:
\* nothing dropped, merged, reordered or added.
C11_TextVerbatim == TextsOut = deltas

IsEndFrame(e) == e = TextEvent("")
IsUnkeyedError(e) == e.type = "error" /\ e.id = 0

\* C12: a response that has ended after the stream headers ended once, and
\* its last frame is either the empty text frame (graceful completion) or
\* the unkeyed error event of the failure path of handler, never both: the
\* empty text frame and the unkeyed error are written only as the last
\* frame, right before the response ends, and nothing is written after
\* either.
C12_LastFrameTellsOutcome ==
  /\ pc = "run" => ended = 0
  /\ (pc = "done" /\ status = 200) =>
       /\ ended = 1
       /\ out # <<>>
       /\ IsEndFrame(Last(out)) \/ IsUnkeyedError(Last(out))
  /\ \A i \in Indices(out) :
       (IsEndFrame(out[i]) \/ IsUnkeyedError(out[i])) =>
         i = Len(out) /\ pc = "done" /\ ended = 1

\* the stream read by handler failed after a tool result and a text delta
\* went out: the unkeyed error is the last frame
C12_Witness ==
  /\ pc = "done"
  /\ out # <<>>
  /\ IsUnkeyedError(Last(out))
  /\ \E i \in Indices(out) : \E j \in Indices(out) :
       i < j /\ IsToolResult(out[i]) /\ IsDeltaText(out[j])

BlockOf(id) == blocks[CHOOSE i \in Indices(blocks) : blocks[i].id = id]

\* C15: chunking of tool arguments does not change the result.  While a
\* tool-use block is open the buffer is the concatenation of the fragments
\* received since that block started, whatever the fragment boundaries and
\* whatever earlier blocks carried; so the input of every `executing`
\* event and of every search is the one-shot parse of the whole argument
\* text of its block, and every registered block whose text is well-formed
\* is searched.
C15_ChunkingKeepsInput ==
  /\ \A n \in Indices(stack) :
       stack[n].open = "tool" => stack[n].toolInput = stack[n].block.args
  /\ \A k \in Indices(searches) :
       /\ searches[k].id \in StoppedIds
       /\ searches[k].params = JSONparse(BlockOf(searches[k].id).args)
  /\ \A j \in Indices(out) :
       IsExecuting(out[j]) =>
         /\ out[j].id \in StoppedIds
         /\ out[j].input = JSONparse(BlockOf(out[j].id).args)
  /\ \A i \in Indices(blocks) :
       Registered(blocks[i]) /\ Parseable(blocks[i])
         => SearchesOf(blocks[i].id) # {}

\* a step that delivers an input_json_delta to the loop that is reading
IsJsonDeltaStep ==
  /\ Reading
  /\ Cur.open = "tool"
  /\ Len(stack') = Len(stack)
  /\ stack'[Len(stack')].open = "tool"
  /\ chunks' = chunks + 1

\* C16: after each tool-argument delta the whole running buffer is parsed
\* again: when it is valid JSON exactly one input_update event is written,
\* with the parsed value, the id and the name, whatever the value is; when
\* it is not, nothing is written.
C16_InputUpdatePerDelta ==
  [][IsJsonDeltaStep =>
       LET toolInput == stack'[Len(stack')].toolInput IN
       IF JSONparse(toolInput) # SyntaxError
       THEN out' = Append(out, ToolCallEvent("input_update", Cur.toolUseId,
                                             Cur.toolName,
                                             JSONparse(toolInput)))
       ELSE out' = out]_vars

\* ------------------------------------------------- the chat component
\* the characters the reader has delivered
Delivered ==
  LET bytes == BytesOf(sent)
  IN SubSeq(bytes, 1, Len(bytes) - Len(wire))
\* the frames whose line is complete in what was delivered: every frame
\* has two line feeds, and its line ends at the first
CompleteLines ==
  LET d == Delivered
  IN (Cardinality({k \in Indices(d) : d[k] = LF}) + 1) \div 2

AllWritten == \A i \in Indices(sent) : sent[i].kind = "event"

\* C17: the framing round-trips whatever the read boundaries.  For a body
\* made of frames written by writeStreamEvent, the events the read loop
\* has handled are exactly the events whose line has been delivered
\* completely, in the order written and each once; the incomplete
\* trailing line is what the buffer carries to the next read; once the
\* whole body is delivered every event has been handled and nothing is
\* left over.
C17_FramingRoundTrip ==
  AllWritten =>
    /\ processed = LET n == CompleteLines IN [i \in 1..n |-> sent[i].event]
    /\ client.at = "reading" => client.buffer = Carry(split(Delivered))
    /\ (wire = <<>> /\ client.at = "reading") =>
         /\ processed = [i \in Indices(sent) |-> sent[i].event]
         /\ client.buffer = <<>>

\* a read ended inside the `data: ` prefix of the third frame of a turn
C17_Witness ==
  /\ client.at = "reading"
  /\ AllWritten
  /\ Len(sent) > 2
  /\ Len(processed) = 2
  /\ client.buffer = <<"da">>

IsWritten(item) == item.kind = "event"
\* the events of the well-formed frames among the first n items
WrittenEvents(n) ==
  LET items == SelectSeq(SubSeq(sent, 1, n), IsWritten)
  IN [i \in Indices(items) |-> items[i].event]

RECURSIVE Replay(_, _)
Replay(c, events) ==
  IF events = <<>> THEN c
  ELSE Replay(Reduce(c, Head(events)), Tail(events))

\* the component right after ClientSend
Reading0 ==
  [Sending(ClientIdle) EXCEPT !.at = "reading"]

\* C18: a data line whose payload is not valid JSON, and a line without
\* the data prefix, are dropped and the stream goes on.  The events
\* handled are exactly the well-formed frames among the complete lines,
\* in order, and the component is in the state those events alone lead to
\* (up to the tool calls a timer has moved since).
C18_BadLinesDropped ==
  /\ processed = WrittenEvents(CompleteLines)
  /\ client.at = "reading" =>
       LET r == Replay(Reading0, processed) IN
       /\ client.assistantMessage = r.assistantMessage
       /\ client.streamingMessage = r.streamingMessage
       /\ client.messages = r.messages
       /\ client.isLoading
       /\ client.timers = r.timers =>
            /\ client.currentToolCalls = r.currentToolCalls
            /\ client.completedToolCalls = r.completedToolCalls

\* a malformed data line came first and the text event after it was
\* handled
C18_Witness ==
  /\ client.at = "reading"
  /\ Len(sent) = 2
  /\ sent[1] = Malformed
  /\ processed = <<TextEvent("a")>>
  /\ client.streamingMessage = <<"a">>

EndFrameReceived == processed # <<>> /\ Last(processed) = TextEvent("")

\* C19: when the body ends without the final empty text frame, sendMessage
\* does not finish as for a graceful completion: it surfaces an error, the
\* error message of its catch or at least the note of an error event.
C19_AbruptCloseIsError ==
  (client.at = "returned" /\ ~EndFrameReceived) =>
    \/ Last(client.messages) = ErrorMessage
    \/ \E i \in Indices(processed) : IsUnkeyedError(processed[i])

HasInputFor1(e) == e.type = "tool_call" /\ e.id = 1 /\ e.input # Absent
HasInputFor2(e) == e.type = "tool_call" /\ e.id = 2 /\ e.input # Absent
InputsFor(id) ==
  IF id = 1 THEN SelectSeq(processed, HasInputFor1)
  ELSE SelectSeq(processed, HasInputFor2)
ResultSeen(id) ==
  \E i \in Indices(processed) :
    processed[i].type = "tool_result" /\ processed[i].id = id

CompletedFor(id) ==
  {k \in Indices(client.completedToolCalls) :
     client.completedToolCalls[k].id = id}

\* C21: the completed list never holds two entries with the same id, and
\* every id that received a tool_result is in it exactly once as soon as
\* all the timers set for it have fired, for any sequence of events and
\* any order of the timers.
C21_CompletedOncePerId ==
  /\ \A j, k \in Indices(client.completedToolCalls) :
       client.completedToolCalls[j].id = client.completedToolCalls[k].id
         => j = k
  /\ \A id \in ToolCallIds :
       (ResultSeen(id) /\ client.timers[id] = 0) =>
         Cardinality(CompletedFor(id)) = 1

\* the tool call an error event was written for: the handlers name it
\* under `id` (streaming handler) or `toolId` (two-step handler)
FailedToolOf(e) == IF e.id # 0 THEN e.id ELSE e.toolId
IsToolError(e) == e.type = "error" /\ FailedToolOf(e) # 0

\* C22: an error event keyed by a tool-call id sets the entry of that id
\* to status error with the message of the event and leaves the text
\* alone; an unkeyed one appends the bracketed note to the text and
\* leaves the tool calls alone.  And the error event a handler writes for
\* a failed tool call reaches the component keyed: once it is handled,
\* the entry of the failed tool call has status error and the text is
\* what it was.
C22_ErrorEventRouting ==
  /\ \A e \in StreamEvents : e.type = "error" =>
       LET after == Reduce(client, e) IN
       IF e.id # 0
       THEN after = [client EXCEPT
                       !.currentToolCalls[e.id] =
                          [@ EXCEPT !.status = "error",
                                    !.error = e.message]]
       ELSE after = [client EXCEPT
                       !.assistantMessage =
                          Append(@, ErrorNote(e.message)),
                       !.streamingMessage =
                          Append(client.assistantMessage,
                                 ErrorNote(e.message))]
  /\ (processed # <<>> /\ IsToolError(Last(processed))) =>
       LET e == Last(processed)
           before == Replay(Reading0,
                            SubSeq(processed, 1, Len(processed) - 1))
           after == Replay(Reading0, processed)
       IN /\ after.currentToolCalls[FailedToolOf(e)].status = "error"
          /\ after.currentToolCalls[FailedToolOf(e)].error = e.message
          /\ after.assistantMessage = before.assistantMessage

\* what an event adds to the text: the payload of a text event, the note
\* of an unkeyed error event, nothing otherwise
PieceOf(e) ==
  IF e.type = "text" THEN (IF e.data = "" THEN <<>> ELSE <<e.data>>)
  ELSE IF e.type = "error" /\ e.id = 0 THEN <<ErrorNote(e.message)>>
  ELSE <<>>
RECURSIVE PiecesOf(_)
PiecesOf(events) ==
  IF events = <<>> THEN <<>>
  ELSE PieceOf(Head(events)) \o PiecesOf(Tail(events))

\* C23: during a turn the streaming text only grows by appending.  Over
\* every pass of the read loop the text before is a prefix of the text
\* after, what was added is exactly the payloads of the text events
\* handled in that pass (and the notes of unkeyed errors), in order, so
\* that tool_call and tool_result events add nothing; and the displayed
\* streamingMessage is the accumulated text.
C23_TextOnlyAppends ==
  [][(client.at = "reading" /\ client'.at = "reading") =>
       /\ IsPrefix(client.assistantMessage, client'.assistantMessage)
       /\ IsPrefix(processed, processed')
       /\ client'.assistantMessage =
            client.assistantMessage \o
            PiecesOf(SubSeq(processed', Len(processed) + 1, Len(processed')))
       /\ client'.streamingMessage = client'.assistantMessage]_vars

\* text arrived, then a tool call with its result, then text again
C23_Witness ==
  /\ client.at = "reading"
  /\ Len(processed) = 6
  /\ processed[2] = TextEvent("a")
  /\ processed[5].type = "tool_result"
  /\ processed[6] = TextEvent("a")
  /\ client.streamingMessage = <<"a", "a", "a">>

\* sendMessage returned through the end of the stream, not its catch
ReturnedAtEnd ==
  client.at = "returned" /\ Last(client.messages) # ErrorMessage

\* C24: at the end of the stream the conversation is the user message
\* followed, when the accumulated text is not empty, by exactly one
\* assistant message whose content is the payloads of the text events of
\* the turn (and the notes of unkeyed errors) in arrival order, whatever
\* tool events came between them, and the streaming buffer is empty; with
\* no text, no assistant message is added.
C24_CommitAtEnd ==
  ReturnedAtEnd =>
    LET text == PiecesOf(processed) IN
    /\ client.messages =
         IF text # <<>> THEN <<UserMessage, ChatMessage("assistant", text)>>
         ELSE <<UserMessage>>
    /\ client.streamingMessage = <<>>
    /\ ~client.isLoading

\* the stream with text before and after a tool call ended
C24_Witness ==
  /\ ReturnedAtEnd
  /\ Len(processed) = 7
  /\ processed[5].type = "tool_result"
  /\ client.messages =
       <<UserMessage, ChatMessage("assistant", <<"a", "a", "a">>)>>

\* the end of the stream as ClientReadDone leaves the component
AtEnd(c) ==
  [c EXCEPT !.at = "returned",
            !.messages =
               IF c.assistantMessage # <<>>
               THEN Append(@, ChatMessage("assistant", c.assistantMessage))
               ELSE @,
            !.streamingMessage =
               IF c.assistantMessage # <<>> THEN <<>> ELSE @,
            !.isLoading = FALSE]

RECURSIVE FireAll(_)
FireAll(c) ==
  IF \A id \in ToolCallIds : c.timers[id] = 0 THEN c
  ELSE FireAll(Fire(c, CHOOSE id \in ToolCallIds : c.timers[id] > 0))

\* the run in which the whole body arrives in one read and the timers
\* fire after the end of the stream
ReplayOf(events) == FireAll(AtEnd(Replay(Reading0, events)))

\* C25: the final state of a turn is a function of the event sequence.
\* When the stream has ended and every timer has fired, the committed
\* messages, the streaming buffer, the active tool calls and the
\* completed list are those of the run that handles the same events in
\* one read and lets the timers fire last, whatever the reads were and
\* whenever the timers fired.
C25_ReplayDeterministic ==
  (ReturnedAtEnd /\ \A id \in ToolCallIds : client.timers[id] = 0) =>
    LET r == ReplayOf(processed) IN
    /\ client.messages = r.messages
    /\ client.streamingMessage = r.streamingMessage
    /\ client.currentToolCalls = r.currentToolCalls
    /\ client.completedToolCalls = r.completedToolCalls

\* C26: when the request fails, the response is not OK or has no body,
\* or a read of the stream fails, sendMessage ends through its catch: the
\* conversation is the user message followed by exactly one synthetic
\* assistant error message, no assistant message carries the partial
\* text of the turn, and isLoading is false again.
C26_FailureEndsInErrorMessage ==
  client.errorLogged =>
    /\ client.at = "returned"
    /\ client.messages = <<UserMessage, ErrorMessage>>
    /\ ~client.isLoading

\* a read failed after part of the text had been received
C26_Witness ==
  /\ client.errorLogged
  /\ client.assistantMessage = <<"a">>
  /\ wire # <<>>
  /\ Last(client.messages) = ErrorMessage

\* ------------------------------------------------------ hybrid search
\* InterviewSearchSystem.hybridSearch.  alpha is a multiple of
\* 1/AlphaDen and is held as its numerator; a distance or a keyword score
\* is 0 or 1; every score is held multiplied by AlphaDen, so that all the
\* arithmetic is exact.
MaxTopK == 5
AlphaDen == 2
Alphas == 0..AlphaDen
Dists == {0, 1}

\* document ids: the number 1, the string "2" and two other strings;
\* text is what toString() gives
DocId(type, text) == [type |-> type, text |-> text]
DocIds == {DocId("number", "1"), DocId("string", "2"),
           DocId("string", "a"), DocId("string", "b")}

\* a row of a sub-query
Row(id, dist) == [id |-> id, dist |-> dist]

\* Math.ceil(topK * alpha) and Math.ceil(topK * (1 - alpha))
VectorTopK(topK, alpha) == (topK * alpha + AlphaDen - 1) \div AlphaDen
KeywordTopK(topK, alpha) ==
  (topK * (AlphaDen - alpha) + AlphaDen - 1) \div AlphaDen

Min(a, b) == IF a < b THEN a ELSE b

\* the rows a sub-query can answer with: at most top_k of them, every
\* document once, in rank order (ascending distance for the vector
\* query, descending score for the keyword query)
RowsOf(topK, ascending) ==
  {rows \in UNION {[1..n -> {Row(id, d) : id \in DocIds, d \in Dists}] :
                     n \in 0..Min(topK, Cardinality(DocIds))} :
     /\ \A i, j \in 1..Len(rows) : rows[i].id = rows[j].id => i = j
     /\ \A i \in 1..(Len(rows) - 1) :
          IF ascending THEN rows[i].dist <= rows[i + 1].dist
          ELSE rows[i].dist >= rows[i + 1].dist}

\* `row.$dist || 0`
OrZero(dist) == IF dist = 0 THEN 0 ELSE dist

\* an entry of combinedResults
Combined(id, vector_score, keyword_score, score) ==
  [id |-> id, vector_score |-> vector_score,
   keyword_score |-> keyword_score, score |-> score]

\* combinedResults is held as the sequence of its entries in the order
\* the keys were created; docId is the key of an entry
KeyOf(entry) == entry.id.text
HasKey(combinedResults, docId) ==
  \E k \in Indices(combinedResults) : KeyOf(combinedResults[k]) = docId
IndexOfKey(combinedResults, docId) ==
  CHOOSE k \in Indices(combinedResults) : KeyOf(combinedResults[k]) = docId

\* `combinedResults[docId] = entry`
SetKey(combinedResults, docId, entry) ==
  IF HasKey(combinedResults, docId)
  THEN [combinedResults EXCEPT ![IndexOfKey(combinedResults, docId)] = entry]
  ELSE Append(combinedResults, entry)

\* the loop over the rows of the vector query
RECURSIVE VectorLoop(_, _, _)
VectorLoop(combinedResults, rows, alpha) ==
  IF rows = <<>> THEN combinedResults
  ELSE LET row == Head(rows)
           vectorScore == 1 - OrZero(row.dist)
       IN VectorLoop(SetKey(combinedResults, row.id.text,
                            Combined(row.id, vectorScore, 0,
                                     alpha * vectorScore)),
                     Tail(rows), alpha)

\* the loop over the rows of the keyword query
RECURSIVE KeywordLoop(_, _, _)
KeywordLoop(combinedResults, rows, alpha) ==
  IF rows = <<>> THEN combinedResults
  ELSE LET row == Head(rows)
           docId == row.id.text
           keywordScore == OrZero(row.dist)
       IN KeywordLoop(
            IF HasKey(combinedResults, docId)
            THEN LET k == IndexOfKey(combinedResults, docId) IN
                 [combinedResults EXCEPT
                    ![k].keyword_score = keywordScore,
                    ![k].score = alpha * combinedResults[k].vector_score
                                 + (AlphaDen - alpha) * keywordScore]
            ELSE Append(combinedResults,
                        Combined(row.id, 0, keywordScore,
                                 (AlphaDen - alpha) * keywordScore)),
            Tail(rows), alpha)

\* a stable sort of seq by ascending key, key[i] being the key of seq[i]
StableSort(seq, key) ==
  LET n == Len(seq)
      pos(i) == Cardinality({j \in 1..n : \/ key[j] < key[i]
                                          \/ key[j] = key[i] /\ j < i}) + 1
  IN [p \in 1..n |-> seq[CHOOSE i \in 1..n : pos(i) = p]]

\* a key that is an array index, and its value
IsArrayIndex(docId) == docId \in {"1", "2"}
IndexValue(docId) == IF docId = "1" THEN 1 ELSE 2
IsIndexEntry(entry) == IsArrayIndex(KeyOf(entry))
IsNamedEntry(entry) == ~IsArrayIndex(KeyOf(entry))

\* Object.values: the properties whose key is an array index in ascending
\* numeric order, then the others in the order they were created
ObjectValues(combinedResults) ==
  LET indexed == SelectSeq(combinedResults, IsIndexEntry)
  IN StableSort(indexed, [i \in Indices(indexed) |->
                            IndexValue(KeyOf(indexed[i]))])
     \o SelectSeq(combinedResults, IsNamedEntry)

\* a sort by ascending score
SortAscending(values) ==
  StableSort(values, [i \in Indices(values) |-> values[i].score])

\* `.sort((a, b) => b.score - a.score)`
SortDescending(values) ==
  StableSort(values, [i \in Indices(values) |-> 0 - values[i].score])

\* `.slice(0, topK)`
Slice(values, topK) == SubSeq(values, 1, Min(topK, Len(values)))

CombinedResults(vectorRows, keywordRows, alpha) ==
  KeywordLoop(VectorLoop(<<>>, vectorRows, alpha), keywordRows, alpha)

hybridSearch(vectorRows, keywordRows, topK, alpha) ==
  Slice(SortDescending(ObjectValues(
          CombinedResults(vectorRows, keywordRows, alpha))), topK)

\* hybridSearch is called and multiQuery answers
HybridQuery ==
  /\ hybrid.at = "idle"
  /\ \E topK \in 1..MaxTopK, alpha \in Alphas :
       \E vectorRows \in RowsOf(VectorTopK(topK, alpha), TRUE),
          keywordRows \in RowsOf(KeywordTopK(topK, alpha), FALSE) :
         hybrid' = [hybrid EXCEPT !.at = "queried",
                                  !.topK = topK,
                                  !.alpha = alpha,
                                  !.vectorRows = vectorRows,
                                  !.keywordRows = keywordRows]
  /\ UNCHANGED <<session, conc, connected, cache, wire, sent, client, processed, serverVars>>

\* the rows are combined, sorted and cut, and hybridSearch returns
HybridReturn ==
  /\ hybrid.at = "queried"
  /\ hybrid' = [hybrid EXCEPT
                  !.at = "returned",
                  !.results = hybridSearch(hybrid.vectorRows,
                                           hybrid.keywordRows,
                                           hybrid.topK, hybrid.alpha)]
  /\ UNCHANGED <<session, conc, connected, cache, wire, sent, client, processed, serverVars>>

HybridNext ==
  \/ HybridQuery
  \/ HybridReturn

HybridSpec == TurnInit /\ [][HybridNext]_vars

\* the score of a document in the rows of a sub-query, 0 when it is not
\* among them
VectorScoreOf(id) ==
  LET rows == hybrid.vectorRows IN
  IF \E i \in Indices(rows) : rows[i].id = id
  THEN 1 - rows[CHOOSE i \in Indices(rows) : rows[i].id = id].dist
  ELSE 0
KeywordScoreOf(id) ==
  LET rows == hybrid.keywordRows IN
  IF \E i \in Indices(rows) : rows[i].id = id
  THEN rows[CHOOSE i \in Indices(rows) : rows[i].id = id].dist
  ELSE 0

\* C27: every result of a hybrid search has score = alpha * vector_score
\* + (1 - alpha) * keyword_score, the score of a sub-query that did not
\* return the document being 0; the results are sorted by descending
\* score, hold every document id at most once, and are at most topK.
C27_HybridScores ==
  hybrid.at = "returned" =>
    LET results == hybrid.results IN
    /\ \A i \in Indices(results) :
         /\ results[i].vector_score = VectorScoreOf(results[i].id)
         /\ results[i].keyword_score = KeywordScoreOf(results[i].id)
         /\ results[i].score =
              hybrid.alpha * results[i].vector_score
              + (AlphaDen - hybrid.alpha) * results[i].keyword_score
    /\ \A i \in 1..(Len(results) - 1) :
         results[i].score >= results[i + 1].score
    /\ \A i, j \in Indices(results) :
         results[i].id = results[j].id => i = j
    /\ Len(results) <= hybrid.topK

\* three vector hits and two keyword hits that share one document: four
\* results, the shared document with the blended score
C27_Witness ==
  /\ hybrid.at = "returned"
  /\ hybrid.alpha = 1
  /\ Len(hybrid.vectorRows) = 3
  /\ Len(hybrid.keywordRows) = 2
  /\ Len(hybrid.results) = 4
  /\ \E i \in Indices(hybrid.results) :
       /\ hybrid.results[i].vector_score = 1
       /\ hybrid.results[i].keyword_score = 1
       /\ hybrid.results[i].score = 2

\* C28: results with equal combined score keep the order in which the
\* merge first produced their documents (the vector rows in rank order,
\* then the keyword-only rows in rank order), whatever the ids are: the
\* results are the stable descending sort of the documents in that order,
\* cut to topK.
C28_TiesKeepMergeOrder ==
  hybrid.at = "returned" =>
    hybrid.results =
      Slice(SortDescending(CombinedResults(hybrid.vectorRows,
                                           hybrid.keywordRows,
                                           hybrid.alpha)),
            hybrid.topK)

\* ------------------------------------------------------- cancellation
\* the client closes the connection while the handler is streaming; the
\* handler registers no close listener and writeStreamEvent does not look
\* at the state of the response, so nothing in the handler changes
ClientDisconnect ==
  /\ pc = "run"
  /\ connected
  /\ connected' = FALSE
  /\ UNCHANGED <<session, conc, hybrid, cache, wire, sent, client, processed, serverVars>>

CancelNext ==
  \/ TurnNext
  \/ ClientDisconnect

\* one turn of the streaming handler during which the client may close
\* the connection
CancelSpec == TurnInit /\ [][CancelNext]_vars

\* C29: once the client has disconnected the handler writes no further
\* frame for the turn and sends no further model request.
C29_DisconnectStopsStreaming ==
  [][~connected => (out' = out /\ requests' = requests)]_vars

\* ------------------------------------------------- the interviews cache
\* loadInterviews of the interviews and rag endpoints.  Each await is a
\* point where other calls and modifications of the file can run: the
\* answer of fs.stat or fs.readFile is taken when the operation
\* completes, and the code after the await runs in a later step.
MaxCalls == 3
MaxWrites == 2

\* JSON.parse of the text of the file
JSONparseFile(raw) ==
  IF Len(raw) = 3 /\ raw[1] = "[" /\ raw[3] = "]" THEN <<raw[2]>>
  ELSE NoInterviews

restVars == <<session, conc, connected, hybrid, wire, sent, client, processed, serverVars>>

InProgress(c) == c.at \notin {"idle", "returned"}

\* the file is modified: a new text, a later modification time
ModifyFile ==
  /\ cache.file.mtimeMs <= MaxWrites
  /\ cache' = [cache EXCEPT
                 !.file = File(@.mtimeMs + 1, FileText(@.mtimeMs + 1)),
                 !.calls = [p \in Callers |->
                              IF cache.calls[p].at # "idle"
                              THEN [cache.calls[p] EXCEPT !.changed = TRUE]
                              ELSE cache.calls[p]]]
  /\ UNCHANGED restVars

\* loadInterviews is called: fs.stat is issued
LoadStart(p) ==
  /\ ~InProgress(cache.calls[p])
  /\ cache.made < MaxCalls
  /\ cache' = [cache EXCEPT
                 !.made = @ + 1,
                 !.calls = [q \in Callers |->
                   IF q = p
                   THEN Call("stat", 0, <<>>, NoInterviews,
                             /\ cache.mem # NoCache
                             /\ cache.mem.mtime = cache.file.mtimeMs,
                             FALSE,
                             \A r \in Callers \ {p} :
                               ~InProgress(cache.calls[r]),
                             FALSE)
                   ELSE IF InProgress(cache.calls[q])
                   THEN [cache.calls[q] EXCEPT !.alone = FALSE]
                   ELSE cache.calls[q]]]
  /\ UNCHANGED restVars

\* fs.stat answers with the modification time of the file
StatDone(p) ==
  /\ cache.calls[p].at = "stat"
  /\ cache' = [cache EXCEPT !.calls[p].at = "check",
                            !.calls[p].stat = cache.file.mtimeMs]
  /\ UNCHANGED restVars

\* `if (!cache || cache.mtime !== stat.mtimeMs)` holds: fs.readFile is
\* issued
LoadMiss(p) ==
  /\ cache.calls[p].at = "check"
  /\ cache.mem = NoCache \/ cache.mem.mtime # cache.calls[p].stat
  /\ cache' = [cache EXCEPT !.calls[p].at = "read",
                            !.calls[p].didRead = TRUE]
  /\ UNCHANGED restVars

\* the test fails: `return cache.interviews`
LoadHit(p) ==
  /\ cache.calls[p].at = "check"
  /\ cache.mem # NoCache
  /\ cache.mem.mtime = cache.calls[p].stat
  /\ cache' = [cache EXCEPT !.calls[p].at = "returned",
                            !.calls[p].returned = cache.mem.interviews]
  /\ UNCHANGED restVars

\* fs.readFile answers with the text of the file
ReadDone(p) ==
  /\ cache.calls[p].at = "read"
  /\ cache' = [cache EXCEPT !.calls[p].at = "store",
                            !.calls[p].raw = cache.file.text]
  /\ UNCHANGED restVars

\* `cache = { interviews: data, mtime: stat.mtimeMs }` and
\* `return cache.interviews`
LoadStore(p) ==
  /\ cache.calls[p].at = "store"
  /\ LET data == JSONparseFile(cache.calls[p].raw) IN
     cache' = [cache EXCEPT !.mem = Cache(data, cache.calls[p].stat),
                            !.calls[p].at = "returned",
                            !.calls[p].returned = data]
  /\ UNCHANGED restVars

CacheNext ==
  \/ ModifyFile
  \/ \E p \in Callers : LoadStart(p)
  \/ \E p \in Callers : StatDone(p)
  \/ \E p \in Callers : LoadMiss(p)
  \/ \E p \in Callers : LoadHit(p)
  \/ \E p \in Callers : ReadDone(p)
  \/ \E p \in Callers : LoadStore(p)

CacheSpec == TurnInit /\ [][CacheNext]_vars

\* whenever the cached mtime is the mtime of the file, the cached
\* interviews are those of the file
CacheCoherent ==
  (cache.mem # NoCache /\ cache.mem.mtime = cache.file.mtimeMs) =>
    cache.mem.interviews = JSONparseFile(cache.file.text)

\* a call during which no other call was in progress and after which the
\* file was not modified returned the interviews of the file
AloneReturnsCurrent ==
  \A p \in Callers :
    LET c == cache.calls[p] IN
    (c.at = "returned" /\ c.alone /\ ~c.changed) =>
      c.returned = JSONparseFile(cache.file.text)

\* a call made when the cached mtime was the mtime of the file, with the
\* file not modified since, did not read the file
UnchangedNotReRead ==
  \A p \in Callers :
    LET c == cache.calls[p] IN
    (c.at = "returned" /\ c.hit /\ ~c.changed) => ~c.didRead

\* C30: the cache is read-through and invalidated by modification time,
\* under every interleaving of calls and modifications of the file: when
\* the cached mtime equals the current mtime of the file the cached
\* content is the current content; a call with no concurrent call
\* returns the current content; and a call made while the mtime is
\* unchanged does not read the file again.
C30_CacheByMtime ==
  /\ CacheCoherent
  /\ AloneReturnsCurrent
  /\ UnchangedNotReRead

\* ------------------------------------------------ concurrent requests
\* The handling of message histories by handler and
\* handleStreamWithToolCalls, for two requests whose steps interleave at
\* every await.  A step of a request is "start" (the first model
\* request), "tool" (a tool call is executed and its follow-up stream is
\* handed to a nested handleStreamWithToolCalls), "fail" (the same, but
\* the follow-up request throws) or "end" (the stream of the innermost
\* activation ends).
ConcSteps == {"tool", "fail", "end"}

\* the tool-use ids the model assigns within request r
ConcToolId(r, n) == 10 * r + n

ConcToolPair(id) ==
  <<HistoryMessage("assistant", "tool_use", id),
    HistoryMessage("user", "tool_result", id)>>

ConcFrame(lvl, ref) == [lvl |-> lvl, ref |-> ref]

\* the frames a tool call writes
ConcToolEvents(id) ==
  <<HistoryMessage("tool_call", "executing", id),
    HistoryMessage("tool_result", "", id)>>
ConcErrorEvent(id) == HistoryMessage("error", "Search execution failed", id)
ConcEndFrame == HistoryMessage("text", "", 0)

\* an activation that works on the array it was given
WorkingArrayAliased(w, baseMessages) == baseMessages

\* `const currentMessages = [...baseMessages]`: a new array
WorkingArray(w, baseMessages) == w.allocated + 1

\* handleStreamWithToolCalls is entered with baseMessages and, from
\* handler, the tool call just executed: the copy is made and the pair
\* of that tool call pushed onto it
Enter(w, r, baseMessages, initialPair) ==
  LET currentMessages == WorkingArray(w, baseMessages) IN
  [w EXCEPT
     !.arrays[currentMessages] = w.arrays[baseMessages] \o initialPair,
     !.allocated = IF currentMessages > @ THEN currentMessages ELSE @,
     !.reqs[r].stack = Append(@, ConcFrame("nested", currentMessages))]

\* one step of request r
Do(w, r, step) ==
  LET q == w.reqs[r]
      f == q.stack[Len(q.stack)]
      id == ConcToolId(r, q.nextId)
      logged == [w EXCEPT !.reqs[r].script = Append(@, step)]
  IN
  CASE step = "start" ->
         [logged EXCEPT
            !.reqs[r].pc = "run",
            !.reqs[r].requests = Append(@, w.arrays[r]),
            !.reqs[r].stack = <<ConcFrame("top", r)>>]
    [] step = "tool" /\ f.lvl = "top" ->
         Enter([logged EXCEPT
                  !.reqs[r].out = @ \o ConcToolEvents(id),
                  !.reqs[r].nextId = @ + 1,
                  !.reqs[r].requests =
                     Append(@, w.arrays[f.ref] \o ConcToolPair(id))],
               r, f.ref, ConcToolPair(id))
    [] step = "tool" /\ f.lvl = "nested" ->
         Enter([logged EXCEPT
                  !.arrays[f.ref] = @ \o ConcToolPair(id),
                  !.reqs[r].out = @ \o ConcToolEvents(id),
                  !.reqs[r].nextId = @ + 1,
                  !.reqs[r].requests =
                     Append(@, w.arrays[f.ref] \o ConcToolPair(id))],
               r, f.ref, <<>>)
    [] step = "fail" /\ f.lvl = "top" ->
         [logged EXCEPT
            !.reqs[r].out = @ \o ConcToolEvents(id)
                              \o <<ConcErrorEvent(id)>>,
            !.reqs[r].nextId = @ + 1,
            !.reqs[r].requests =
               Append(@, w.arrays[f.ref] \o ConcToolPair(id))]
    [] step = "fail" /\ f.lvl = "nested" ->
         [logged EXCEPT
            !.arrays[f.ref] = @ \o ConcToolPair(id),
            !.reqs[r].out = @ \o ConcToolEvents(id)
                              \o <<ConcErrorEvent(id)>>,
            !.reqs[r].nextId = @ + 1,
            !.reqs[r].requests =
               Append(@, w.arrays[f.ref] \o ConcToolPair(id))]
    [] step = "end" /\ f.lvl = "top" ->
         [logged EXCEPT
            !.reqs[r].out = Append(@, ConcEndFrame),
            !.reqs[r].stack = <<>>,
            !.reqs[r].pc = "done"]
    [] step = "end" /\ f.lvl = "nested" ->
         [logged EXCEPT
            !.reqs[r].stack = SubSeq(@, 1, Len(@) - 1)]

concRest == <<session, connected, hybrid, cache, wire, sent, client, processed,
              serverVars>>

\* handler of request r sends the first model request
ConcStart(r) ==
  /\ conc.reqs[r].pc = "start"
  /\ conc' = Do(conc, r, "start")
  /\ UNCHANGED concRest

\* a tool call of request r is executed and its follow-up stream handled
ConcTool(r) ==
  /\ conc.reqs[r].pc = "run"
  /\ conc.reqs[r].nextId <= MaxSteps
  /\ conc' = Do(conc, r, "tool")
  /\ UNCHANGED concRest

\* a tool call of request r is executed and its follow-up request throws
ConcFail(r) ==
  /\ conc.reqs[r].pc = "run"
  /\ conc.reqs[r].nextId <= MaxSteps
  /\ conc' = Do(conc, r, "fail")
  /\ UNCHANGED concRest

\* the stream of the innermost activation of request r ends
ConcEnd(r) ==
  /\ conc.reqs[r].pc = "run"
  /\ conc' = Do(conc, r, "end")
  /\ UNCHANGED concRest

ConcNext ==
  \/ \E r \in Reqs : ConcStart(r)
  \/ \E r \in Reqs : ConcTool(r)
  \/ \E r \in Reqs : ConcFail(r)
  \/ \E r \in Reqs : ConcEnd(r)

ConcSpec == TurnInit /\ [][ConcNext]_vars

\* request r taking the given steps with no other request running
RECURSIVE Alone(_, _, _)
Alone(w, r, script) ==
  IF script = <<>> THEN w
  ELSE Alone(Do(w, r, Head(script)), r, Tail(script))

\* C31: the message history is private to a request.  The `messages`
\* array of a request body is never changed; every history sent to the
\* model for a request starts with the messages of its own body and
\* holds tool pairs of its own tool calls only; and what a request has
\* written to its response and sent to the model is what the same steps
\* produce when the request runs alone, whatever the other request did
\* in between.
C31_HistoryPrivate ==
  \A r \in Reqs :
    LET q == conc.reqs[r]
        alone == Alone(ConcIdle, r, q.script).reqs[r]
    IN /\ conc.arrays[r] = BodyMessages(r)
       /\ \A k \in Indices(q.requests) :
            /\ IsPrefix(BodyMessages(r), q.requests[k])
            /\ \A i \in Indices(q.requests[k]) :
                 \/ q.requests[k][i].id = 0
                 \/ q.requests[k][i].id \div 10 = r
       /\ q.out = alone.out
       /\ q.requests = alone.requests

\* both requests were inside a nested follow-up at the same time, and
\* the first went on to a second tool call at the top level, whose
\* history holds the body and that tool call only
C31_Witness ==
  /\ Len(conc.reqs[2].stack) = 2
  /\ Len(conc.reqs[2].requests) = 2
  /\ conc.reqs[1].script = <<"start", "tool", "end", "tool">>
  /\ conc.reqs[1].requests[3] =
       BodyMessages(1) \o ConcToolPair(ConcToolId(1, 2))

\* C32: all the model requests of a turn carry the same system prompt:
\* the one of the request body when it has one, the default prompt
\* otherwise, for the first request and for every follow-up request at
\* every depth.
C32_SameSystemPrompt ==
  \A i \in Indices(requests) :
    requests[i].system = OrDefault(req.systemPrompt)

\* C33: the response of every request is ended exactly once and no frame
\* is written after it was ended: the response is never ended twice, a
\* handler that has returned has ended it once, and once it is ended the
\* frames written do not change.
C33_EndedOnceNoLateFrame ==
  /\ [](ended <= 1 /\ (pc = "done" => ended = 1))
  /\ [][ended > 0 => (out' = out /\ ended' = ended)]_vars

\* a turn in which a nested follow-up stream failed has ended: the keyed
\* error frame of the tool call is followed by the end frame
C33_Witness ==
  /\ pc = "done"
  /\ ended = 1
  /\ Len(out) > 2
  /\ Last(out) = TextEvent("")
  /\ \E i \in Indices(out) : out[i].type = "error" /\ out[i].id # 0
  /\ Len(requests) >= 2

\* C38: every entry of the completed list has a defined id, the status
\* completed and a result, and no id is both in the active map and in the
\* completed list, for every event sequence the component can receive.
C38_CompletedEntriesWellFormed ==
  /\ \A k \in Indices(client.completedToolCalls) :
       LET tc == client.completedToolCalls[k] IN
       /\ tc.id # 0
       /\ tc.status = "completed"
       /\ tc.result # NoResult
  /\ \A id \in ToolCallIds :
       client.currentToolCalls[id] # NoToolCall => CompletedFor(id) = {}


\* C36: whenever no turn is in progress (isLoading is false) the streaming
\* text buffer is empty, whichever way the turn ended.
C36_IdleBufferEmpty ==
  ~client.isLoading => client.streamingMessage = <<>>


\* ------------------------------------------ the chat over several turns
\* sendMessage calls of one component instance
MaxTurns == 2

\* String.prototype.trim on the characters of the input field
RECURSIVE trimStart(_)
trimStart(s) ==
  IF s # <<>> /\ Head(s) = " " THEN trimStart(Tail(s)) ELSE s
RECURSIVE trimEnd(_)
trimEnd(s) ==
  IF s # <<>> /\ s[Len(s)] = " "
  THEN trimEnd(SubSeq(s, 1, Len(s) - 1))
  ELSE s
trim(s) == trimEnd(trimStart(s))

\* what the input field is set to: blanks only, a question
InputValues == {<<" ">>, <<"question", " ">>}

\* the responses of the turns: no frame at all, text only, a tool call
\* with its result and text, a tool call whose result is followed by an
\* error frame of the same id
SessionBodies ==
  {<<>>,
   <<Written(EventTable[1])>>,
   <<Written(EventTable[3]), Written(EventTable[6]), Written(EventTable[1])>>,
   <<Written(EventTable[3]), Written(EventTable[6]), Written(EventTable[7])>>}

\* a guard that lets a second sendMessage start while a turn is read
earlyReturnBlankOnly(c, inputValue) == trim(inputValue) = <<>>

\* the first line of sendMessage: the early return
earlyReturn(c, inputValue) == trim(inputValue) = <<>> \/ c.isLoading

newMessage(inputValue) == ChatMessage("user", trim(inputValue))

\* the state updates sendMessage starts with, and its locals
Begun(c, inputValue) ==
  [c EXCEPT !.messages = Append(@, newMessage(inputValue)),
            !.isLoading = TRUE,
            !.streamingMessage = <<>>,
            !.currentToolCalls = [i \in ToolCallIds |-> NoToolCall],
            !.completedToolCalls = <<>>,
            !.assistantMessage = <<>>,
            !.buffer = <<>>]

\* what the turn that starts leaves behind it: the body of its POST, the
\* timers of earlier tool results that are still pending
NextTurn(s, c) ==
  [inputValue |-> <<>>,
   turns |-> s.turns + 1,
   posted |-> Append(c.messages, newMessage(s.inputValue)),
   stale |-> c.timers,
   cleared |-> FALSE]

\* onChange of the input field, which is disabled while a turn runs, or
\* a click on an example question of the welcome screen
SessionInput ==
  /\ session.turns < MaxTurns
  /\ \/ ~client.isLoading
     \/ /\ client.messages = <<>>
        /\ client.streamingMessage = <<>>
        /\ \A i \in ToolCallIds : client.currentToolCalls[i] = NoToolCall
  /\ \E v \in InputValues : session' = [session EXCEPT !.inputValue = v]
  /\ UNCHANGED <<conc, connected, hybrid, cache, wire, sent, client,
                 processed, serverVars>>

\* sendMessage returns at once
SessionSendReturn ==
  /\ earlyReturn(client, session.inputValue)
  /\ UNCHANGED vars

\* sendMessage up to the reader: fetch answers 200 with a body
SessionSend ==
  /\ session.turns < MaxTurns
  /\ ~earlyReturn(client, session.inputValue)
  /\ \E body \in SessionBodies :
       /\ sent' = body
       /\ wire' = BytesOf(body)
  /\ client' = [Begun(client, session.inputValue) EXCEPT !.at = "reading"]
  /\ session' = NextTurn(session, client)
  /\ processed' = <<>>
  /\ UNCHANGED <<conc, connected, hybrid, cache, serverVars>>

\* sendMessage when fetch rejects, or the response is not ok or has no body
SessionSendFail ==
  /\ session.turns < MaxTurns
  /\ ~earlyReturn(client, session.inputValue)
  /\ client' = Caught(Begun(client, session.inputValue))
  /\ session' = NextTurn(session, client)
  /\ processed' = <<>>
  /\ UNCHANGED <<conc, connected, hybrid, cache, wire, sent, serverVars>>

\* a pending setTimeout callback runs; callbacks of one delay run in the
\* order they were set, those of earlier turns first
SessionTimer ==
  /\ \E id \in ToolCallIds :
       /\ client.timers[id] > 0
       /\ client' = Fire(client, id)
       /\ session' = [session EXCEPT
                        !.stale[id] = IF @ > 0 THEN @ - 1 ELSE @]
  /\ UNCHANGED <<conc, connected, hybrid, cache, wire, sent, processed,
                 serverVars>>

\* clearChat: the New Chat button, shown while there are messages
clearChat ==
  /\ client.messages # <<>>
  /\ client' = [client EXCEPT
                  !.messages = <<>>,
                  !.streamingMessage = <<>>,
                  !.currentToolCalls = [i \in ToolCallIds |-> NoToolCall],
                  !.completedToolCalls = <<>>]
  /\ session' = [session EXCEPT !.stale = client.timers, !.cleared = TRUE]
  /\ UNCHANGED <<conc, connected, hybrid, cache, wire, sent, processed,
                 serverVars>>

SessionNext ==
  \/ SessionInput
  \/ SessionSendReturn
  \/ SessionSend
  \/ SessionSendFail
  \/ ClientRead
  \/ ClientReadDone
  \/ ClientReadFail
  \/ SessionTimer
  \/ clearChat

\* the chat component over several turns, with clearChat
SessionSpec == TurnInit /\ [][SessionNext]_vars

\* C34: sendMessage starts a turn only when the input is not blank and no
\* turn is in progress; each turn it starts issues one POST whose messages
\* are the committed list followed by the new user message; once a turn
\* has ended, however it ended, isLoading is false again.
C34_OneTurnAtATime ==
  [][/\ session'.turns # session.turns =>
          /\ ~client.isLoading
          /\ client.at # "reading"
          /\ trim(session.inputValue) # <<>>
          /\ session'.turns = session.turns + 1
          /\ session'.posted =
                Append(client.messages, newMessage(session.inputValue))
     /\ client'.isLoading <=> client'.at = "reading"]_vars

\* a second turn was started after the first one ended by a read failure,
\* and has ended: its POST carried the three messages before it
C34_Witness ==
  /\ session.turns = 2
  /\ Len(session.posted) = 3
  /\ session.posted[2] = ErrorMessage
  /\ client.at = "returned"
  /\ ~client.isLoading
  /\ Len(client.messages) = 4

\* C35: the committed message list is empty or starts with a user message
\* and alternates user and assistant; after clearChat it stays empty until
\* the next sendMessage.
C35_MessagesAlternate ==
  /\ \A i \in Indices(client.messages) :
       client.messages[i].role = IF i % 2 = 1 THEN "user" ELSE "assistant"
  /\ session.cleared => client.messages = <<>>

\* C37: a timer set before the last sendMessage or clearChat adds nothing
\* to the completed list and removes nothing from the active map when it
\* fires.
C37_StaleTimerInert ==
  [][(\E id \in ToolCallIds : session'.stale[id] < session.stale[id]) =>
       /\ client'.completedToolCalls = client.completedToolCalls
       /\ client'.currentToolCalls = client.currentToolCalls]_vars

====
